---------------------------- MODULE Spec2Model ----------------------------
(***************************************************************************)
(* Model of the error-notifier library (src/src/index.ts): the conversion  *)
(* engine FileCreator (validation, parsing, serialisation to json / csv /  *)
(* txt), the ConfigStore singleton and the SlackNotifier dispatcher behind *)
(* the public alert API.                                                   *)
(*                                                                         *)
(* JavaScript strings are sequences of one-character strings; JavaScript   *)
(* values are records tagged by the field t:                               *)
(*   "str" (s), "num" (n, a natural number), "bool" (b), "null", "undef",  *)
(*   "arr" (items), "obj" (kv: the own enumerable properties, a sequence   *)
(*   of <<key, value>> pairs in property order), "error" (message, stack). *)
(***************************************************************************)
EXTENDS Integers, Sequences, FiniteSets, TLC

VARIABLES
    request,    \* engine: the call being made (function, data, options)
    outcome,    \* engine: what that call returned or threw, and what it wrote
    previous,   \* engine: the request and outcome of the call before it
    config,     \* ConfigStore fields
    errorListeners, \* listeners registered with alert.onError
    sends,      \* sendToSlack invocations, each with its position
    tempFiles,  \* the temp directory: file name -> [content, old]
    slack,      \* what the remote workspace received: messages and uploads
    lastCall,   \* the last init or alert call and what its caller observed
    cleanup,    \* the startup sweep: the directory listing still to visit
    internalErrors  \* the INTERNAL_ERROR events emitted so far

vars == <<request, outcome, previous, config, errorListeners, sends,
          tempFiles, slack, lastCall, cleanup, internalErrors>>

engineVars == <<request, outcome, previous>>
libraryVars == <<config, errorListeners, sends, slack, lastCall, cleanup,
                 internalErrors>>

---------------------------------------------------------------------------
(* JavaScript values *)

Str(s) == [t |-> "str", s |-> s]
Num(n) == [t |-> "num", n |-> n]
Bool(b) == [t |-> "bool", b |-> b]
Null == [t |-> "null"]
Undefined == [t |-> "undef"]
Arr(items) == [t |-> "arr", items |-> items]
Obj(kv) == [t |-> "obj", kv |-> kv]
ErrorObj(message, stack) == [t |-> "error", message |-> message, stack |-> stack]

IsString(v) == v.t = "str"
\* typeof v === 'object' (true of null, arrays, plain objects and Error instances)
TypeofObject(v) == v.t \in {"null", "arr", "obj", "error"}
IsArray(v) == v.t = "arr"
\* a value in a boolean position: if (x), !x, x || y
Truthy(v) ==
    CASE v.t = "str" -> v.s # <<>>
      [] v.t = "num" -> v.n # 0
      [] v.t = "bool" -> v.b
      [] v.t \in {"null", "undef"} -> FALSE
      [] OTHER -> TRUE

---------------------------------------------------------------------------
(* JavaScript strings *)

Whitespace == {" ", "\n", "\t", "\r"}
Digits == <<"0", "1", "2", "3", "4", "5", "6", "7", "8", "9">>
IsDigit(c) == \E d \in 1..10 : Digits[d] = c
DigitValue(c) == (CHOOSE d \in 1..10 : Digits[d] = c) - 1

\* s.includes(c)
Includes(s, c) == \E i \in 1..Len(s) : s[i] = c

RECURSIVE TrimStart(_)
TrimStart(s) ==
    IF s # <<>> /\ Head(s) \in Whitespace THEN TrimStart(Tail(s)) ELSE s

RECURSIVE TrimEnd(_)
TrimEnd(s) ==
    IF s # <<>> /\ s[Len(s)] \in Whitespace
    THEN TrimEnd(SubSeq(s, 1, Len(s) - 1)) ELSE s

\* s.trim()
Trim(s) == TrimEnd(TrimStart(s))

\* the positions from..Len(s), in order
IndexesFrom(s, from) == [k \in 1..(Len(s) - from + 1) |-> from + k - 1]

\* the items of s at the positions at
ItemsAt(s, at) == [n \in 1..Len(at) |-> s[at[n]]]

\* the items of s without repetitions, each where it occurs first
FirstOccurrences(s) ==
    ItemsAt(s, SelectSeq(IndexesFrom(s, 1),
                         LAMBDA k : \A j \in 1..(k - 1) : s[j] # s[k]))

\* the pieces of s between the separator positions at
SplitAt(s, at) ==
    [k \in 1..(Len(at) + 1) |->
        SubSeq(s, IF k = 1 THEN 1 ELSE at[k - 1] + 1,
                  IF k = Len(at) + 1 THEN Len(s) ELSE at[k] - 1)]

\* s.split(sep) for a one-character separator: never empty, "" gives [""]
Split(s, sep) == SplitAt(s, SelectSeq(IndexesFrom(s, 1), LAMBDA i : s[i] = sep))

RECURSIVE ConcatRange(_, _, _)
ConcatRange(parts, lo, hi) ==
    IF lo > hi THEN <<>>
    ELSE IF lo = hi THEN parts[lo]
    ELSE ConcatRange(parts, lo, (lo + hi) \div 2)
         \o ConcatRange(parts, ((lo + hi) \div 2) + 1, hi)

\* the concatenation of the parts
Concat(parts) == ConcatRange(parts, 1, Len(parts))

\* parts.join(sep)
Join(parts, sep) ==
    Concat([i \in 1..Len(parts) |-> IF i = 1 THEN parts[1] ELSE sep \o parts[i]])

RECURSIVE NumToStr(_)
\* String(n) for a natural number
NumToStr(n) ==
    IF n < 10 THEN <<Digits[n + 1]>>
    ELSE NumToStr(n \div 10) \o <<Digits[(n % 10) + 1]>>

\* s.replace(/"/g, '""')
DoubleQuotes(s) ==
    Concat([i \in 1..Len(s) |-> IF s[i] = "\"" THEN <<"\"", "\"">> ELSE <<s[i]>>])

RECURSIVE StringOf(_)
RECURSIVE JoinItems(_)
\* Array.prototype.join(','): null and undefined elements give ''
JoinItems(items) ==
    IF items = <<>> THEN <<>>
    ELSE (IF items[1].t \in {"null", "undef"} THEN <<>> ELSE StringOf(items[1]))
         \o (IF Len(items) = 1 THEN <<>> ELSE <<",">> \o JoinItems(Tail(items)))

\* String(v)
StringOf(v) ==
    CASE v.t = "str" -> v.s
      [] v.t = "num" -> NumToStr(v.n)
      [] v.t = "bool" ->
            IF v.b THEN <<"t", "r", "u", "e">> ELSE <<"f", "a", "l", "s", "e">>
      [] v.t = "null" -> <<"n", "u", "l", "l">>
      [] v.t = "undef" -> <<"u", "n", "d", "e", "f", "i", "n", "e", "d">>
      [] v.t = "arr" -> JoinItems(v.items)
      [] v.t = "error" -> <<"E", "r", "r", "o", "r", ":", " ">> \o v.message
      [] OTHER -> <<"[", "o", "b", "j", "e", "c", "t", " ",
                    "O", "b", "j", "e", "c", "t", "]">>

---------------------------------------------------------------------------
(* JavaScript objects: property order, lookup, assignment, spread *)

\* a canonical array index ("0", "7", "12"): such keys are enumerated first,
\* in ascending numeric order, whatever the insertion order
IsIndexKey(k) ==
    /\ k # <<>>
    /\ \A i \in 1..Len(k) : IsDigit(k[i])
    /\ (Len(k) > 1 => k[1] # "0")

RECURSIVE IndexValue(_)
IndexValue(k) ==
    IF Len(k) = 1 THEN DigitValue(k[1])
    ELSE 10 * IndexValue(SubSeq(k, 1, Len(k) - 1)) + DigitValue(k[Len(k)])

HasKey(kv, k) == \E i \in 1..Len(kv) : kv[i][1] = k
KeyPos(kv, k) == CHOOSE i \in 1..Len(kv) : kv[i][1] = k

\* where a new key is inserted in the property order
InsertPos(kv, k) ==
    IF IsIndexKey(k)
    THEN Cardinality({i \in 1..Len(kv) :
            IsIndexKey(kv[i][1]) /\ IndexValue(kv[i][1]) < IndexValue(k)}) + 1
    ELSE Len(kv) + 1

InsertAt(kv, p, pair) == SubSeq(kv, 1, p - 1) \o <<pair>> \o SubSeq(kv, p, Len(kv))

\* obj[k] = v on the property list kv
SetProp(kv, k, v) ==
    IF HasKey(kv, k) THEN [kv EXCEPT ![KeyPos(kv, k)] = <<k, v>>]
    ELSE InsertAt(kv, InsertPos(kv, k), <<k, v>>)

\* the value last assigned to k by the assignments pairs
LastAssigned(pairs, k) ==
    pairs[CHOOSE i \in 1..Len(pairs) :
             /\ pairs[i][1] = k
             /\ \A j \in (i + 1)..Len(pairs) : pairs[j][1] # k][2]

\* the property order of the keys assigned in the order keys: index keys
\* ascending, then the others in the order of their first assignment
PropertyOrder(keys) ==
    SortSeq(SelectSeq(keys, IsIndexKey),
            LAMBDA a, b : IndexValue(a) < IndexValue(b))
    \o SelectSeq(keys, LAMBDA k : ~IsIndexKey(k))

AssignedTo(pairs, keys) ==
    [n \in 1..Len(keys) |-> <<keys[n], LastAssigned(pairs, keys[n])>>]

\* an object literal or a sequence of assignments, in the order given
MakeObject(pairs) ==
    AssignedTo(pairs,
        PropertyOrder(FirstOccurrences([i \in 1..Len(pairs) |-> pairs[i][1]])))

\* v[k] for a string key k
GetProp(v, k) ==
    CASE v.t = "obj" -> IF HasKey(v.kv, k) THEN v.kv[KeyPos(v.kv, k)][2]
                        ELSE Undefined
      [] v.t = "arr" -> IF IsIndexKey(k) /\ IndexValue(k) < Len(v.items)
                        THEN v.items[IndexValue(k) + 1] ELSE Undefined
      [] v.t = "str" -> IF IsIndexKey(k) /\ IndexValue(k) < Len(v.s)
                        THEN Str(<<v.s[IndexValue(k) + 1]>>) ELSE Undefined
      [] v.t = "error" ->
            IF k = <<"m", "e", "s", "s", "a", "g", "e">> THEN Str(v.message)
            ELSE IF k = <<"s", "t", "a", "c", "k">> THEN Str(v.stack)
            ELSE Undefined
      [] OTHER -> Undefined

\* Object.keys(v), for-in over own properties
ObjectKeys(v) ==
    CASE v.t = "obj" -> [i \in 1..Len(v.kv) |-> v.kv[i][1]]
      [] v.t = "arr" -> [i \in 1..Len(v.items) |-> NumToStr(i - 1)]
      [] v.t = "str" -> [i \in 1..Len(v.s) |-> NumToStr(i - 1)]
      [] OTHER -> <<>>

PropsOf(v, keys) == [i \in 1..Len(keys) |-> <<keys[i], GetProp(v, keys[i])>>]
\* the properties copied by the spread {...v}
SpreadProps(v) == PropsOf(v, ObjectKeys(v))

---------------------------------------------------------------------------
(* JSON.stringify and JSON.parse *)

Indent(depth) == [i \in 1..(2 * depth) |-> " "]

\* the body of a JSON string literal
EscapeJson(s) ==
    Concat([i \in 1..Len(s) |->
               CASE s[i] = "\"" -> <<"\\", "\"">>
                 [] s[i] = "\\" -> <<"\\", "\\">>
                 [] s[i] = "\n" -> <<"\\", "n">>
                 [] s[i] = "\r" -> <<"\\", "r">>
                 [] s[i] = "\t" -> <<"\\", "t">>
                 [] OTHER -> <<s[i]>>])

QuoteJson(s) == <<"\"">> \o EscapeJson(s) \o <<"\"">>

\* the line break and indentation before an item nested depth levels deep
Break(pretty, depth) == IF pretty THEN <<"\n">> \o Indent(depth) ELSE <<>>
Colon(pretty) == IF pretty THEN <<":", " ">> ELSE <<":">>
\* the text between open and close, empty when there are no items
Bracket(open, close, items, pretty, depth) ==
    IF items = <<>> THEN <<open, close>>
    ELSE <<open>> \o Break(pretty, depth + 1)
         \o Join(items, <<",">> \o Break(pretty, depth + 1))
         \o Break(pretty, depth) \o <<close>>
\* properties whose value is undefined are left out
IsDefinedProp(p) == p[2].t # "undef"

RECURSIVE JSONstringifyAt(_, _, _)
RECURSIVE JSONmembers(_, _, _)
JSONmembers(kv, pretty, depth) ==
    [i \in 1..Len(kv) |->
        QuoteJson(kv[i][1]) \o Colon(pretty)
        \o JSONstringifyAt(kv[i][2], pretty, depth)]

\* JSON.stringify of v nested depth levels deep; pretty is the indent of 2
JSONstringifyAt(v, pretty, depth) ==
    CASE v.t = "str" -> QuoteJson(v.s)
      [] v.t = "num" -> NumToStr(v.n)
      [] v.t = "bool" -> StringOf(v)
      [] v.t \in {"null", "undef"} -> <<"n", "u", "l", "l">>
      [] v.t = "error" -> <<"{", "}">>
      [] v.t = "arr" ->
            Bracket("[", "]",
                    [i \in 1..Len(v.items) |->
                        JSONstringifyAt(v.items[i], pretty, depth + 1)],
                    pretty, depth)
      [] OTHER ->
            Bracket("{", "}",
                    JSONmembers(SelectSeq(v.kv, IsDefinedProp), pretty, depth + 1),
                    pretty, depth)

\* JSON.stringify(v)
JSONstringify(v) == JSONstringifyAt(v, FALSE, 0)
\* JSON.stringify(v, null, 2)
JSONstringifyPretty(v) == JSONstringifyAt(v, TRUE, 0)

ParseFail == [ok |-> FALSE]
ParseOk(v, i) == [ok |-> TRUE, v |-> v, i |-> i]

RECURSIVE SkipWs(_, _)
SkipWs(s, i) ==
    IF i <= Len(s) /\ s[i] \in Whitespace THEN SkipWs(s, i + 1) ELSE i

StartsWithAt(s, i, lit) ==
    /\ i + Len(lit) - 1 <= Len(s)
    /\ \A j \in 1..Len(lit) : s[i + j - 1] = lit[j]

RECURSIVE BackslashRun(_, _, _)
\* the number of backslashes that end at position k, counted back to from
BackslashRun(s, k, from) ==
    IF k < from \/ s[k] # "\\" THEN 0 ELSE 1 + BackslashRun(s, k - 1, from)

\* the character at k, in a literal that starts at from, follows a backslash
\* that escapes it
IsEscaped(s, k, from) == BackslashRun(s, k - 1, from) % 2 = 1

\* the characters from..to hold no raw control character and no unknown escape
ValidStringBody(s, from, to) ==
    \A k \in from..to :
        IF IsEscaped(s, k, from)
        THEN s[k] \in {"\"", "\\", "/", "n", "r", "t"}
        ELSE s[k] \notin {"\n", "\r", "\t"}

\* the string that the characters from..to of a literal stand for
DecodeStringBody(s, from, to) ==
    Concat([n \in 1..(to - from + 1) |->
               IF IsEscaped(s, from + n - 1, from)
               THEN CASE s[from + n - 1] = "n" -> <<"\n">>
                      [] s[from + n - 1] = "r" -> <<"\r">>
                      [] s[from + n - 1] = "t" -> <<"\t">>
                      [] OTHER -> <<s[from + n - 1]>>
               ELSE IF s[from + n - 1] = "\\" THEN <<>>
               ELSE <<s[from + n - 1]>>])

\* quotes lists the unescaped quotes at or after from: the first closes the literal
ParseStringUpTo(s, from, quotes) ==
    IF quotes = <<>> THEN ParseFail
    ELSE IF ~ValidStringBody(s, from, quotes[1] - 1) THEN ParseFail
    ELSE ParseOk(Str(DecodeStringBody(s, from, quotes[1] - 1)), quotes[1] + 1)

\* the rest of a string literal whose opening quote has been read
ParseStringChars(s, i) ==
    ParseStringUpTo(s, i,
        SelectSeq(IndexesFrom(s, i),
                  LAMBDA j : s[j] = "\"" /\ ~IsEscaped(s, j, i)))

RECURSIVE ParseDigits(_, _, _)
ParseDigits(s, i, n) ==
    IF i <= Len(s) /\ IsDigit(s[i])
    THEN ParseDigits(s, i + 1, 10 * n + DigitValue(s[i]))
    ELSE ParseOk(Num(n), i)

RECURSIVE ParseValue(_, _)
RECURSIVE ParseElements(_, _, _)
RECURSIVE ParseMembers(_, _, _)

RECURSIVE ParseElementsGot(_, _, _)
RECURSIVE ParseElementsAfter(_, _, _)
RECURSIVE ParseMembersKey(_, _, _)
RECURSIVE ParseMembersGotKey(_, _, _)
RECURSIVE ParseMembersColon(_, _, _, _)
RECURSIVE ParseMembersGotValue(_, _, _, _)
RECURSIVE ParseMembersAfter(_, _, _)
RECURSIVE ParseValueAt(_, _)

\* the elements of an array after "[" or ","
ParseElements(s, i, acc) == ParseElementsGot(s, ParseValue(s, i), acc)

\* r is the result of parsing the next element
ParseElementsGot(s, r, acc) ==
    IF ~r.ok THEN ParseFail
    ELSE ParseElementsAfter(s, SkipWs(s, r.i), Append(acc, r.v))

\* an element has been read and added: j is at "," or "]"
ParseElementsAfter(s, j, acc) ==
    IF j > Len(s) THEN ParseFail
    ELSE IF s[j] = "," THEN ParseElements(s, j + 1, acc)
    ELSE IF s[j] = "]" THEN ParseOk(Arr(acc), j + 1)
    ELSE ParseFail

\* the members of an object after "{" or ","; a repeated key keeps its
\* first place and takes the last value
ParseMembers(s, i, kv) == ParseMembersKey(s, SkipWs(s, i), kv)

\* j is at the opening quote of a member's key
ParseMembersKey(s, j, kv) ==
    IF j > Len(s) \/ s[j] # "\"" THEN ParseFail
    ELSE ParseMembersGotKey(s, ParseStringChars(s, j + 1), kv)

\* k is the result of parsing the key
ParseMembersGotKey(s, k, kv) ==
    IF ~k.ok THEN ParseFail
    ELSE ParseMembersColon(s, SkipWs(s, k.i), kv, k.v.s)

\* the key has been read: c is at the colon
ParseMembersColon(s, c, kv, key) ==
    IF c > Len(s) \/ s[c] # ":" THEN ParseFail
    ELSE ParseMembersGotValue(s, ParseValue(s, c + 1), kv, key)

\* r is the result of parsing the member's value
ParseMembersGotValue(s, r, kv, key) ==
    IF ~r.ok THEN ParseFail
    ELSE ParseMembersAfter(s, SkipWs(s, r.i), SetProp(kv, key, r.v))

\* a member has been read and set: e is at "," or "}"
ParseMembersAfter(s, e, kv) ==
    IF e > Len(s) THEN ParseFail
    ELSE IF s[e] = "," THEN ParseMembers(s, e + 1, kv)
    ELSE IF s[e] = "}" THEN ParseOk(Obj(kv), e + 1)
    ELSE ParseFail

\* one JSON value starting at or after position i0
ParseValue(s, i0) == ParseValueAt(s, SkipWs(s, i0))

\* one JSON value starting at the non-blank position i.  Numbers are the
\* natural numbers: signs, fractions and exponents do not occur in the
\* modelled texts.
ParseValueAt(s, i) ==
    IF i > Len(s) THEN ParseFail
    ELSE CASE s[i] = "\"" -> ParseStringChars(s, i + 1)
           [] s[i] = "[" ->
                 IF SkipWs(s, i + 1) <= Len(s) /\ s[SkipWs(s, i + 1)] = "]"
                 THEN ParseOk(Arr(<<>>), SkipWs(s, i + 1) + 1)
                 ELSE ParseElements(s, i + 1, <<>>)
           [] s[i] = "{" ->
                 IF SkipWs(s, i + 1) <= Len(s) /\ s[SkipWs(s, i + 1)] = "}"
                 THEN ParseOk(Obj(<<>>), SkipWs(s, i + 1) + 1)
                 ELSE ParseMembers(s, i + 1, <<>>)
           [] s[i] = "0" -> ParseOk(Num(0), i + 1)
           [] IsDigit(s[i]) /\ s[i] # "0" -> ParseDigits(s, i, 0)
           [] StartsWithAt(s, i, <<"n", "u", "l", "l">>) -> ParseOk(Null, i + 4)
           [] StartsWithAt(s, i, <<"t", "r", "u", "e">>) ->
                 ParseOk(Bool(TRUE), i + 4)
           [] StartsWithAt(s, i, <<"f", "a", "l", "s", "e">>) ->
                 ParseOk(Bool(FALSE), i + 5)
           [] OTHER -> ParseFail

\* the value parsed if nothing but blanks follows it
WholeText(s, r) ==
    IF r.ok /\ SkipWs(s, r.i) > Len(s) THEN [ok |-> TRUE, v |-> r.v]
    ELSE ParseFail

\* JSON.parse(s): [ok |-> FALSE] stands for the SyntaxError it throws
JSONparse(s) == WholeText(s, ParseValue(s, 1))

---------------------------------------------------------------------------
(* FileCreator: options and thrown errors *)

\* an option that was not passed
Absent == "<undefined>"
\* !!tag: neither undefined nor the empty string
TagGiven(tag) == tag \notin {Absent, ""}
validFormats == <<"txt", "json", "csv">>
\* validFormats.includes(tag)
IsValidFormat(tag) == \E i \in 1..Len(validFormats) : validFormats[i] = tag

NoHeaders == [given |-> FALSE, list |-> <<>>]
Headers(list) == [given |-> TRUE, list |-> list]
NoFileName == [given |-> FALSE, name |-> <<>>]
FileName(name) == [given |-> TRUE, name |-> name]

\* throw new Error(message), throw of a TypeError by the runtime
Throw(name, message) ==
    [threw |-> TRUE, error |-> [name |-> name, message |-> message]]
Return(value) == [threw |-> FALSE, value |-> value]

\* a validator that objects only when fileType meets both from and to
usesBothModesNeedsPair(options) ==
    TagGiven(options.fileType) /\ TagGiven(options.from) /\ TagGiven(options.to)

\* line 212: fileType together with from or to
usesBothModes(options) ==
    TagGiven(options.fileType) /\ (TagGiven(options.from) \/ TagGiven(options.to))

\* a validator that misses a target given without a source
hasFromWithoutTo(options) ==
    TagGiven(options.from) /\ ~TagGiven(options.to)

\* line 217: exactly one of from / to
hasOnlyOneOfFromTo(options) ==
    \/ TagGiven(options.from) /\ ~TagGiven(options.to)
    \/ ~TagGiven(options.from) /\ TagGiven(options.to)

\* a validator that never looks at the target tag
invalidFormatOptionButTo(options) ==
    IF TagGiven(options.fileType) /\ ~IsValidFormat(options.fileType)
    THEN "fileType"
    ELSE IF TagGiven(options.from) /\ ~IsValidFormat(options.from)
    THEN "from format"
    ELSE "none"

\* lines 223, 226, 229: the first option whose tag is not a valid format
invalidFormatOption(options) ==
    IF TagGiven(options.fileType) /\ ~IsValidFormat(options.fileType)
    THEN "fileType"
    ELSE IF TagGiven(options.from) /\ ~IsValidFormat(options.from)
    THEN "from format"
    ELSE IF TagGiven(options.to) /\ ~IsValidFormat(options.to)
    THEN "to format"
    ELSE "none"

\* lines 224, 227, 230: the error that names the tag and the valid formats
invalidFormat(options, which) ==
    Throw("Error",
          [text |-> "Invalid " \o which,
           tag |-> CASE which = "fileType" -> options.fileType
                     [] which = "from format" -> options.from
                     [] OTHER -> options.to,
           mustBeOneOf |-> validFormats])

\* a validator that lets a conversion of a format to itself through
isSameFormatNever(options) == FALSE

\* line 234
isSameFormat(options) ==
    TagGiven(options.from) /\ TagGiven(options.to) /\ options.from = options.to

\* the rules in the order the code checks them; the first violated one throws
validateOptions(options) ==
    IF usesBothModes(options)
    THEN Throw("Error",
               [text |-> "Cannot use both fileType and from/to options together"])
    ELSE IF hasOnlyOneOfFromTo(options)
    THEN Throw("Error",
               [text |-> "Both from and to options must be provided together"])
    ELSE IF invalidFormatOption(options) # "none"
    THEN invalidFormat(options, invalidFormatOption(options))
    ELSE IF isSameFormat(options)
    THEN Throw("Error",
               [text |-> "Cannot convert (same format)",
                from |-> options.from, to |-> options.to])
    ELSE Return(Undefined)

---------------------------------------------------------------------------
(* FileCreator: parsing the source format *)

\* new Date().toISOString(): the current instant, an opaque text
NowISOString == <<"<", "n", "o", "w", ">">>

K_content == <<"c", "o", "n", "t", "e", "n", "t">>
K_timestamp == <<"t", "i", "m", "e", "s", "t", "a", "m", "p">>
K_length == <<"l", "e", "n", "g", "t", "h">>
K_lineNumber == <<"l", "i", "n", "e", "N", "u", "m", "b", "e", "r">>
K_characterCount ==
    <<"c", "h", "a", "r", "a", "c", "t", "e", "r", "C", "o", "u", "n", "t">>

\* lines 309-313: try { return JSON.parse(data) } catch { throw ... }
parsedOrThrow(parsed) ==
    IF parsed.ok THEN Return(parsed.v)
    ELSE Throw("Error", [text |-> "Invalid JSON string provided for conversion"])

parseJsonData(data) ==
    IF IsString(data) THEN parsedOrThrow(JSONparse(data.s)) ELSE Return(data)

RECURSIVE quoteRoles(_, _, _, _, _)
\* lines 372-382, what the while loop of parseCsvLine does at the quotes of
\* the line, from the k-th on: at literals it is inside quotes and the next
\* character is a quote too, so it appends one quote and skips both; at
\* toggles it flips inQuotes
quoteRoles(line, quotes, k, inQuotes, roles) ==
    IF k > Len(quotes) THEN roles
    ELSE IF inQuotes /\ quotes[k] < Len(line) /\ line[quotes[k] + 1] = "\""
    THEN quoteRoles(line, quotes, k + 2, inQuotes,
                    [roles EXCEPT !.literals = @ \cup {quotes[k]}])
    ELSE quoteRoles(line, quotes, k + 1, ~inQuotes,
                    [roles EXCEPT !.toggles = @ \cup {quotes[k]}])

\* the value of inQuotes when the loop reaches position i
inQuotesAt(i, roles) == Cardinality({q \in roles.toggles : q < i}) % 2 = 1

\* what the loop appends to current at position i, no field separator
appendedAt(line, i, roles) ==
    IF line[i] # "\"" THEN <<line[i]>>
    ELSE IF i \in roles.literals THEN <<"\"">>
    ELSE <<>>

\* current when the loop has run over the positions from..to
currentOver(line, from, to, roles) ==
    Concat([n \in 1..(to - from + 1) |-> appendedAt(line, from + n - 1, roles)])

\* lines 383-386 and 394: a field ends at each comma outside quotes and at
\* the end of the line
fieldsEndingAt(line, roles, ends) ==
    [k \in 1..(Len(ends) + 1) |->
        currentOver(line, IF k = 1 THEN 1 ELSE ends[k - 1] + 1,
                          IF k = Len(ends) + 1 THEN Len(line) ELSE ends[k] - 1,
                    roles)]

parseCsvLineWith(line, roles) ==
    fieldsEndingAt(line, roles,
        SelectSeq(IndexesFrom(line, 1),
                  LAMBDA i : line[i] = "," /\ ~inQuotesAt(i, roles)))

parseCsvLine(line) ==
    parseCsvLineWith(line,
        quoteRoles(line, SelectSeq(IndexesFrom(line, 1), LAMBDA i : line[i] = "\""),
                   1, FALSE, [toggles |-> {}, literals |-> {}]))

\* obj[header] = values[index] || '' for every header, in order
csvRowObject(headerList, values) ==
    Obj(MakeObject([i \in 1..Len(headerList) |->
            <<headerList[i],
              Str(IF i <= Len(values) THEN values[i] ELSE <<>>)>>]))

\* the lines of the trimmed text; split never returns an empty list
csvLines(csvString) == Split(Trim(csvString), "\n")

\* lines 327-354: the rows built from the lines
csvRows(lines, headers) ==
    IF Len(lines) = 0 THEN Arr(<<>>)
    ELSE IF headers.given
    THEN Arr([i \in 1..Len(lines) |->
                 csvRowObject(headers.list, parseCsvLine(lines[i]))])
    ELSE Arr([i \in 1..(Len(lines) - 1) |->
                 csvRowObject(parseCsvLine(lines[1]), parseCsvLine(lines[i + 1]))])

parseCsvData(csvString, headers) ==
    IF ~IsString(csvString)
    THEN Throw("Error", [text |-> "CSV data must be a string for conversion"])
    ELSE Return(csvRows(csvLines(csvString.s), headers))

\* lines 413-429: the records of a multi-line text, the record of a single line
textRecords(cleanedText, lines) ==
    IF Len(lines) > 1
    THEN Arr([i \in 1..Len(lines) |->
                 Obj(<< <<K_lineNumber, Num(i)>>,
                        <<K_content, Str(Trim(lines[i]))>>,
                        <<K_characterCount, Num(Len(lines[i]))>> >>)])
    ELSE Obj(<< <<K_content, Str(cleanedText)>>,
                <<K_timestamp, Str(NowISOString)>>,
                <<K_length, Num(Len(cleanedText))>> >>)

parseTextData(text) ==
    IF ~IsString(text)
    THEN Obj(<< <<K_content, Str(StringOf(text))>>,
                <<K_timestamp, Str(NowISOString)>> >>)
    ELSE textRecords(Trim(text.s), Split(Trim(text.s), "\n"))

---------------------------------------------------------------------------
(* FileCreator: serialising to the target format; each returns the content *)
(* it hands to fs.writeFileSync                                            *)

createTextFile(data) ==
    IF IsString(data) THEN data.s
    ELSE IF data.t = "error"
    THEN <<"E", "R", "R", "O", "R", ":", " ">> \o data.message
         \o <<"\n", "\n", "S", "T", "A", "C", "K", " ",
              "T", "R", "A", "C", "E", ":", "\n">>
         \o (IF data.stack # <<>> THEN data.stack
             ELSE <<"N", "o", " ", "s", "t", "a", "c", "k", " ",
                    "t", "r", "a", "c", "e">>)
    ELSE IF TypeofObject(data) THEN JSONstringifyPretty(data)
    ELSE StringOf(data)

K_metadata == <<"_", "m", "e", "t", "a", "d", "a", "t", "a">>
metadata ==
    Obj(<< <<<<"g", "e", "n", "e", "r", "a", "t", "e", "d", "A", "t">>,
             Str(NowISOString)>>,
           <<<<"s", "o", "u", "r", "c", "e">>,
             Str(<<"e", "r", "r", "o", "r", "-",
                   "n", "o", "t", "i", "f", "i", "e", "r">>)>>,
           <<<<"f", "o", "r", "m", "a", "t">>, Str(<<"j", "s", "o", "n">>)>> >>)

\* lines 458-464: try { JSON.parse(data) } catch { wrap in an object }
parsedOrWrapped(data, parsed) ==
    IF parsed.ok THEN parsed.v
    ELSE Obj(<< <<K_content, data>>, <<K_timestamp, Str(NowISOString)>> >>)

\* lines 457-474: the value that is merged with the metadata
jsonData(data) ==
    IF IsString(data) THEN parsedOrWrapped(data, JSONparse(data.s))
    ELSE IF data.t = "error"
    THEN Obj(<< <<<<"e", "r", "r", "o", "r">>, Str(data.message)>>,
                <<<<"s", "t", "a", "c", "k">>, Str(data.stack)>>,
                <<K_timestamp, Str(NowISOString)>>,
                <<<<"t", "y", "p", "e">>, Str(<<"E", "r", "r", "o", "r">>)>> >>)
    ELSE data

\* lines 477-484: { ...jsonData, _metadata: {...} }
finalData(data) ==
    Obj(SetProp(MakeObject(SpreadProps(jsonData(data))), K_metadata, metadata))

createJsonFile(data) == JSONstringifyPretty(finalData(data))

RECURSIVE getNestedValueFrom(_, _)
\* the for loop of getNestedValue over the remaining keys of the path
getNestedValueFrom(current, keys) ==
    IF keys = <<>> THEN current
    ELSE IF current.t \in {"null", "undef"} \/ ~TypeofObject(current)
    THEN Undefined
    ELSE getNestedValueFrom(GetProp(current, Head(keys)), Tail(keys))

getNestedValue(obj, path) == getNestedValueFrom(obj, Split(path, "."))

RECURSIVE flattenObject(_, _)
RECURSIVE flattenKeys(_, _, _)
RECURSIVE flattenKey(_, _)
\* lines 608-613: a nested plain object is expanded, anything else is a leaf
flattenKey(fullKey, value) ==
    IF TypeofObject(value) /\ value.t # "null" /\ ~IsArray(value)
    THEN flattenObject(value, fullKey)
    ELSE <<fullKey>>

\* the for-in loop of flattenObject over the remaining own keys
flattenKeys(obj, prefix, keys) ==
    IF keys = <<>> THEN <<>>
    ELSE flattenKey(IF prefix # <<>> THEN prefix \o <<".">> \o Head(keys)
                    ELSE Head(keys),
                    GetProp(obj, Head(keys)))
         \o flattenKeys(obj, prefix, Tail(keys))

flattenObject(obj, prefix) == flattenKeys(obj, prefix, ObjectKeys(obj))

\* headers.add(key) for every key in turn and Array.from(headers): a Set
\* keeps the first occurrence of a key, in insertion order
extractHeadersFromObjects(objects) ==
    FirstOccurrences(Concat([i \in 1..Len(objects) |->
                                flattenObject(objects[i], <<>>)]))

\* a serialiser that quotes every field
escapeCsvFieldAlways(stringValue) ==
    <<"\"">> \o DoubleQuotes(stringValue) \o <<"\"">>

\* lines 518-521: quote a field that holds a comma, a quote or a newline
escapeCsvField(stringValue) ==
    IF Includes(stringValue, ",") \/ Includes(stringValue, "\"")
       \/ Includes(stringValue, "\n")
    THEN <<"\"">> \o DoubleQuotes(stringValue) \o <<"\"">>
    ELSE stringValue

\* lines 508-521: the field written for a value
csvFieldOf(value) ==
    IF value.t \in {"null", "undef"} THEN <<>>
    ELSE escapeCsvField(IF TypeofObject(value) THEN JSONstringify(value)
                        ELSE StringOf(value))

\* lines 506-521: the field written for the value found under a header
csvField(item, header) == csvFieldOf(getNestedValue(item, header))

\* one line of the table, the newline included
csvRow(item, allHeaders) ==
    Join([h \in 1..Len(allHeaders) |-> csvField(item, allHeaders[h])], <<",">>)
    \o <<"\n">>


\* lines 531-544: a row of an array of arrays or primitives
csvPlainRow(row) ==
    IF IsArray(row)
    THEN Join([c \in 1..Len(row.items) |-> escapeCsvField(StringOf(row.items[c]))],
              <<",">>) \o <<"\n">>
    ELSE StringOf(row) \o <<"\n">>

\* lines 502-524 and 549-568: the header line and one line per item
csvTable(items, allHeaders) ==
    Join(allHeaders, <<",">>) \o <<"\n">>
    \o Concat([i \in 1..Len(items) |-> csvRow(items[i], allHeaders)])

createCsvFile(data, headers) ==
    IF IsArray(data) THEN
        IF Len(data.items) = 0
        THEN Return(<<"N", "o", " ", "d", "a", "t", "a">>)
        ELSE IF TypeofObject(data.items[1]) /\ ~IsArray(data.items[1])
        THEN Return(csvTable(data.items,
                             IF headers.given THEN headers.list
                             ELSE extractHeadersFromObjects(data.items)))
        ELSE Return((IF headers.given
                     THEN Join(headers.list, <<",">>) \o <<"\n">> ELSE <<>>)
                    \o Concat([i \in 1..Len(data.items) |->
                                  csvPlainRow(data.items[i])]))
    ELSE IF TypeofObject(data) THEN
        \* Object.keys(null) throws
        IF ~headers.given /\ data.t = "null"
        THEN Throw("TypeError",
                   [text |-> "Cannot convert undefined or null to object"])
        ELSE Return(csvTable(<<data>>,
                             IF headers.given THEN headers.list
                             ELSE ObjectKeys(data)))
    ELSE IF headers.given
    THEN Return(Join(headers.list, <<",">>) \o <<"\n">>
                \o StringOf(data) \o <<"\n">>)
    ELSE Return(<<"V", "a", "l", "u", "e", "\n">> \o StringOf(data) \o <<"\n">>)

---------------------------------------------------------------------------
(* FileCreator: createFileFromData *)

\* what a serialiser call leaves behind: the content written, if any
Written(content) == [threw |-> FALSE, wrote |-> TRUE, content |-> content]
NothingWritten == [threw |-> FALSE, wrote |-> FALSE, content |-> <<>>]
Rethrow(r) == [threw |-> TRUE, error |-> r.error]

WrittenOrThrown(r) == IF r.threw THEN Rethrow(r) ELSE Written(r.value)

\* a serialiser applied to the result of a parser that may have thrown
writeCsv(parsed, csvHeaders) ==
    IF parsed.threw THEN Rethrow(parsed)
    ELSE WrittenOrThrown(createCsvFile(parsed.value, csvHeaders))
writeText(parsed) ==
    IF parsed.threw THEN Rethrow(parsed) ELSE Written(createTextFile(parsed.value))
writeJson(parsed) ==
    IF parsed.threw THEN Rethrow(parsed) ELSE Written(createJsonFile(parsed.value))

convertAndCreateFile(data, from, to, csvHeaders) ==
    CASE from = "json" /\ to = "csv" -> writeCsv(parseJsonData(data), csvHeaders)
      [] from = "json" /\ to = "txt" -> writeText(parseJsonData(data))
      [] from = "csv" /\ to = "json" -> writeJson(parseCsvData(data, csvHeaders))
      [] from = "csv" /\ to = "txt" -> writeText(parseCsvData(data, csvHeaders))
      [] from = "txt" /\ to = "json" -> writeJson(Return(parseTextData(data)))
      [] from = "txt" /\ to = "csv" ->
            writeCsv(Return(parseTextData(data)), csvHeaders)
      [] OTHER -> NothingWritten

createFileDirectly(data, fileType, csvHeaders) ==
    CASE fileType = "txt" -> writeText(Return(data))
      [] fileType = "json" -> writeJson(Return(data))
      [] fileType = "csv" -> writeCsv(Return(data), csvHeaders)
      [] OTHER -> Rethrow(Throw("Error", [text |-> "Unsupported file type",
                                          tag |-> fileType]))

\* lines 163-175
shouldConvert(options) == TagGiven(options.from) /\ TagGiven(options.to)

\* a resolution that takes the source of a conversion for its format
outputFormatOfSource(options) ==
    IF TagGiven(options.from) /\ TagGiven(options.to) THEN options.from
    ELSE IF TagGiven(options.fileType) THEN options.fileType
    ELSE "txt"

\* lines 163-175: the output format
outputFormat(options) ==
    IF TagGiven(options.from) /\ TagGiven(options.to) THEN options.to
    ELSE IF TagGiven(options.fileType) THEN options.fileType
    ELSE "txt"

\* the characters of a format tag that passed validation
FormatChars(format) ==
    CASE format = "txt" -> <<"t", "x", "t">>
      [] format = "json" -> <<"j", "s", "o", "n">>
      [] OTHER -> <<"c", "s", "v">>

\* a resolution that appends the extension to every name given
resolveFileNameAppending(options, timestamp, random) ==
    IF ~options.fileName.given \/ options.fileName.name = <<>>
    THEN <<"a", "l", "e", "r", "t", "-">> \o timestamp \o <<"-">> \o random
         \o <<".">> \o FormatChars(outputFormat(options))
    ELSE options.fileName.name \o <<".">> \o FormatChars(outputFormat(options))

\* lines 178-186; timestamp and random are the clock reading and the 8 hex
\* characters drawn for a generated name
resolveFileName(options, timestamp, random) ==
    IF ~options.fileName.given \/ options.fileName.name = <<>>
    THEN <<"a", "l", "e", "r", "t", "-">> \o timestamp \o <<"-">> \o random
         \o <<".">> \o FormatChars(outputFormat(options))
    ELSE IF ~Includes(options.fileName.name, ".")
    THEN options.fileName.name \o <<".">> \o FormatChars(outputFormat(options))
    ELSE options.fileName.name

\* a creation that has truncated the file at the path before the
\* conversion runs
fileCreatedAfterTruncating(options, fileName, w) ==
    IF w.threw THEN [threw |-> TRUE, error |-> w.error, wrote |-> TRUE,
                     filePath |-> fileName, content |-> <<>>]
    ELSE [threw |-> FALSE, wrote |-> w.wrote, filePath |-> fileName,
          outputFormat |-> outputFormat(options), content |-> w.content]

\* The result of the call: either the error thrown, or the path returned
\* (the base name inside the temp directory), the resolved format and the
\* content written to that path.
\* lines 191-200: the conversion or direct creation w has run
fileCreated(options, fileName, w) ==
    IF w.threw THEN [threw |-> TRUE, error |-> w.error, wrote |-> FALSE]
    ELSE [threw |-> FALSE, wrote |-> w.wrote, filePath |-> fileName,
          outputFormat |-> outputFormat(options), content |-> w.content]

\* lines 157-200, validateOptions having returned or thrown v
createValidated(data, options, fileName, v) ==
    IF v.threw THEN [threw |-> TRUE, error |-> v.error, wrote |-> FALSE]
    ELSE fileCreated(options, fileName,
                     IF shouldConvert(options)
                     THEN convertAndCreateFile(data, options.from, options.to,
                                               options.csvHeaders)
                     ELSE createFileDirectly(data, outputFormat(options),
                                             options.csvHeaders))

createFileFromData(data, options, timestamp, random) ==
    createValidated(data, options, resolveFileName(options, timestamp, random),
                    validateOptions(options))

---------------------------------------------------------------------------
(* Bounds and the inputs the callers draw from *)

\* longest generated field value
MaxStrLen == 2
\* longest generated plain text
MaxTextLen == 4
\* longest generated CSV text
MaxCsvLen == 6
\* longest chain of engine calls, each after the first reading back the
\* content the call before it produced
MaxCalls == 2
\* longest file a caller reads back for a further conversion
MaxReadLen == 400

Strings(alphabet, n) == UNION {[1..k -> alphabet] : k \in 0..n}

Tags == {Absent, "", "txt", "json", "csv", "pdf"}
FileNames == {NoFileName, FileName(<<>>), FileName(<<"r", "e", "p", "o", "r", "t">>),
              FileName(<<"r", "e", "p", "o", "r", "t", ".", "t", "x", "t">>)}
HeaderChoices == {NoHeaders, Headers(<< <<"a">>, <<"b">> >>)}
Timestamps == {<<"1", "7">>}
RandomHex == {<<"0", "0", "0", "0", "0", "0", "0", "a">>,
              <<"0", "0", "0", "0", "0", "0", "0", "b">>}

Options(fileName, fileType, from, to, csvHeaders) ==
    [fileName |-> fileName, fileType |-> fileType, from |-> from, to |-> to,
     csvHeaders |-> csvHeaders]
AllOptions ==
    [fileName : FileNames, fileType : Tags, from : Tags, to : Tags,
     csvHeaders : HeaderChoices]

Convert(from, to) ==
    Options(FileName(<<"o", "u", "t">>), Absent, from, to, NoHeaders)
Direct(fileType) ==
    Options(FileName(<<"o", "u", "t">>), fileType, Absent, Absent, NoHeaders)

\* field values: strings with and without the characters CSV must quote,
\* numbers, null, a nested plain object, an array
FieldStrings ==
    Strings({"x", ","}, MaxStrLen)
    \cup {<<"\"">>, <<"\n">>, <<"x", "\n", "y">>, <<"x", "\"", "y">>, <<" ", "x">>,
          <<"1">>, <<"t", "r", "u", "e">>}
NestedObject == Obj(<< <<<<"c">>, Num(2)>>, <<<<"d">>, Num(3)>> >>)
Scalars == {Str(s) : s \in FieldStrings} \cup {Num(1), Num(30), Null, Bool(TRUE)}
FieldValues == Scalars \cup {NestedObject, Arr(<<Num(1), Str(<<"x">>)>>)}
Rows ==
    {Obj(<< <<<<"a">>, v>> >>) : v \in FieldValues}
    \cup {Obj(<< <<<<"a">>, v>>, <<<<"b">>, w>> >>) :
             v \in FieldValues, w \in {Num(2), NestedObject}}
SecondRows == {Obj(<< <<<<"a">>, Str(<<"x">>)>> >>),
               Obj(<< <<<<"b">>, NestedObject>>, <<<<"a">>, Num(1)>> >>)}
JsonInputs ==
    Rows \cup {Arr(<<r>>) : r \in Rows}
    \cup {Arr(<<r, q>>) : r \in Rows, q \in SecondRows}
    \cup {Arr(<<>>), Null, Num(1), Arr(<<Arr(<<Num(1), Str(<<",">>)>>)>>),
          ErrorObj(<<"x">>, <<"a", "t">>)}

\* plain texts, among them the two-line text "L1\nL2"
Texts ==
    {Str(s) : s \in Strings({"L", "\n"}, MaxTextLen)}
    \cup {Str(<<"L", "1", "\n", "L", "2">>), Str(<<" ", "L", " ", "\n", " ", "M", " ">>),
          Str(<<"{", "\"", "a", "\"", ":", "1", "}">>),
          Str(<<"[", "1", "]">>), Str(<<"a", ",", "b", "\n", "1", ",", "2">>)}

\* the data of the option matrix: an object and a text that is no JSON
MatrixData == {Obj(<< <<<<"a">>, Num(1)>> >>), Str(<<"L", "1">>)}

EngineRequests ==
    (MatrixData \X AllOptions)
    \cup (JsonInputs \X {Convert("json", "csv"), Convert("json", "txt"),
                         Direct("csv"), Direct("json"), Direct("txt")})
    \cup ((Texts \cup {Num(1)})
          \X {Convert("txt", "json"), Convert("txt", "csv"),
              Convert("csv", "json"), Convert("csv", "txt"),
              Convert("json", "csv"), Direct("txt"), Direct("json")})

\* CSV texts: every text over a name, the comma and the newline, and texts
\* with a second name, a dotted name, a repeated name, an index-like name,
\* blanks, quoted fields, and rows shorter and longer than the header
CsvTexts ==
    {Str(s) : s \in Strings({"a", ",", "\n"}, MaxCsvLen)}
    \cup {Str(<<"a", ",", "b", "\n", "1", ",", "2", "\n">>),
          Str(<<"a", ",", "b", "\n", "1", ",", "2">>),
          Str(<<"a", ".", "b", "\n", "x", "\n">>),
          Str(<<"a", ",", "0", "\n", "x", ",", "y", "\n">>),
          Str(<<" ", "a", "\n", "x", " ", "\n">>),
          Str(<<"a", "\n", "\"", "x", ",", "y", "\"", "\n">>),
          Str(<<"a", "\n", "\"", "x", "\"", "\"", "y", "\"", "\n">>),
          Str(<<"a", ",", "b", "\n", "x", "\n">>),
          Str(<<"a", "\n", "x", ",", "y", "\n">>),
          Num(1)}

\* tables of string fields: one row with one or two columns, and two rows
CsvTables ==
    {Arr(<<Obj(<< <<<<"a">>, Str(s)>> >>)>>) : s \in FieldStrings}
    \cup {Arr(<<Obj(<< <<<<"a">>, Str(s)>>, <<<<"b">>, Str(u)>> >>)>>) :
             s \in FieldStrings, u \in {<<"y">>, <<>>}}
    \cup {Arr(<<Obj(<< <<<<"a">>, Str(<<"x">>)>> >>),
                Obj(<< <<<<"a">>, Str(s)>> >>)>>) : s \in FieldStrings}

---------------------------------------------------------------------------
(* State *)

NoRequest == [fn |-> "none", step |-> 0]
NoOutcome == [threw |-> FALSE, wrote |-> FALSE]
NoPrevious == [request |-> NoRequest, outcome |-> NoOutcome]

\* the ConfigStore after a successful initialisation with the defaults
TempDir == <<"t", "e", "m", "p", "-", "u", "p", "l", "o", "a", "d", "s">>

\* fs.writeFileSync(path, content) in the temp directory
writeFileSync(files, path, content) ==
    [n \in DOMAIN files \cup {path} |->
        IF n = path THEN [content |-> content, old |-> FALSE] ELSE files[n]]

XoxbToken == <<"x", "o", "x", "b", "-", "1">>
ChannelName == <<"#", "a", "l", "e", "r", "t", "s">>
ChannelId == <<"C", "1">>

\* the ConfigStore fields as the class declares them (lines 15-21)
UninitializedConfig ==
    [isInitialized |-> FALSE, slackToken |-> <<>>, defaultChannelName |-> <<>>,
     defaultChannelId |-> <<>>, autoDeleteFiles |-> TRUE, tempDir |-> <<>>]

\* lines 48-63
initialize(store, slackToken, channelName, channelId) ==
    IF store.isInitialized THEN store
    ELSE [store EXCEPT !.slackToken = slackToken,
                       !.defaultChannelName = channelName,
                       !.defaultChannelId = channelId,
                       !.tempDir = TempDir,
                       !.isInitialized = TRUE]

NoCall == [op |-> "none"]
NoSlackTraffic == [messages |-> {}, uploads |-> {}]

---------------------------------------------------------------------------
(* SpecEngine: a caller of FileCreator.createFileFromData, on an            *)
(* initialised library.  The first call takes the caller's data; a later    *)
(* call takes the content of the file the call before it wrote, declared as *)
(* its source format.                                                       *)

EngineInit ==
    /\ request = NoRequest
    /\ outcome = NoOutcome
    /\ previous = NoPrevious
    /\ config = initialize(UninitializedConfig, XoxbToken, ChannelName, ChannelId)
    /\ errorListeners = {}
    /\ sends = <<>>
    /\ tempFiles = writeFileSync(<<>>, <<"o", "u", "t", ".", "c", "s", "v">>,
                                 <<"o", "l", "d">>)
    /\ slack = NoSlackTraffic
    /\ lastCall = NoCall
    /\ cleanup = <<>>
    /\ internalErrors = {}

\* the call req has returned or thrown r: its write reaches the directory
EngineCalled(req, r) ==
    /\ request' = req
    /\ outcome' = r
    /\ previous' = [request |-> request, outcome |-> outcome]
    /\ tempFiles' = IF r.wrote THEN writeFileSync(tempFiles, r.filePath, r.content)
                    ELSE tempFiles
    /\ UNCHANGED libraryVars

\* one call of createFileFromData and the write it ends with
EngineCall(data, options, source, timestamp, random) ==
    EngineCalled([fn |-> "createFileFromData", step |-> request.step + 1,
                  data |-> data, options |-> options, source |-> source],
                 createFileFromData(data, options, timestamp, random))

\* the random characters matter only to a generated name
RandomFor(options) ==
    IF options.fileName.given /\ options.fileName.name # <<>>
    THEN {<<"0", "0", "0", "0", "0", "0", "0", "a">>} ELSE RandomHex

CallCreateFileFromData ==
    /\ request.step = 0
    /\ \E r \in EngineRequests, timestamp \in Timestamps :
          \E random \in RandomFor(r[2]) :
              EngineCall(r[1], r[2], "caller", timestamp, random)

\* the caller reads the artifact back and converts it to another format
ReadBackAndConvert ==
    /\ request.step > 0
    /\ request.step < MaxCalls
    /\ request.fn = "createFileFromData"
    /\ outcome.wrote
    /\ Len(tempFiles[outcome.filePath].content) <= MaxReadLen
    /\ \E to \in {"txt", "json", "csv"} \ {outcome.outputFormat},
          timestamp \in Timestamps,
          random \in {<<"0", "0", "0", "0", "0", "0", "0", "a">>} :
          EngineCall(Str(tempFiles[outcome.filePath].content),
                     Options(FileName(<<"b", "a", "c", "k">>), Absent,
                             outcome.outputFormat, to, NoHeaders),
                     "file", timestamp, random)

EngineNext == CallCreateFileFromData \/ ReadBackAndConvert

SpecEngine == EngineInit /\ [][EngineNext]_vars

---------------------------------------------------------------------------
(* SpecCsv: the CSV parser and the CSV serialiser called on their own, and  *)
(* each applied to what the other returned.                                 *)

\* the call req has returned or thrown r
CsvCalled(req, r) ==
    /\ request' = req
    /\ outcome' = r
    /\ previous' = [request |-> request, outcome |-> outcome]
    /\ UNCHANGED <<tempFiles, config, errorListeners, sends, slack, lastCall,
                   cleanup, internalErrors>>

CallParseCsvData ==
    /\ request.step = 0
    /\ \E csvString \in CsvTexts, headers \in HeaderChoices :
          CsvCalled([fn |-> "parseCsvData", step |-> 1, csvString |-> csvString,
                     headers |-> headers, source |-> "caller"],
                    parseCsvData(csvString, headers))

CallCreateCsvFile ==
    /\ request.step = 0
    /\ \E data \in CsvTables, headers \in HeaderChoices :
          CsvCalled([fn |-> "createCsvFile", step |-> 1, data |-> data,
                     headers |-> headers, source |-> "caller"],
                    createCsvFile(data, headers))

\* the header list that was in force when the text was parsed: the one
\* passed to the parser, or the fields of the first line
HeadersParsed(req) ==
    IF req.headers.given THEN req.headers
    ELSE Headers(parseCsvLine(csvLines(req.csvString.s)[1]))

\* the table the parser returned is serialised, with the header list of the
\* parse or with none
SerializeParsed ==
    /\ request.fn = "parseCsvData"
    /\ request.step < MaxCalls
    /\ ~outcome.threw
    /\ \E headers \in {HeadersParsed(request), NoHeaders} :
          CsvCalled([fn |-> "createCsvFile", step |-> request.step + 1,
                     data |-> outcome.value, headers |-> headers,
                     source |-> "parsed"],
                    createCsvFile(outcome.value, headers))

\* the text the serialiser produced is parsed, the first line as the header
ParseSerialized ==
    /\ request.fn = "createCsvFile"
    /\ request.step < MaxCalls
    /\ ~outcome.threw
    /\ CsvCalled([fn |-> "parseCsvData", step |-> request.step + 1,
                  csvString |-> Str(outcome.value), headers |-> NoHeaders,
                  source |-> "serialized"],
                 parseCsvData(Str(outcome.value), NoHeaders))

CsvNext ==
    CallParseCsvData \/ CallCreateCsvFile \/ SerializeParsed \/ ParseSerialized

SpecCsv == EngineInit /\ [][CsvNext]_vars

---------------------------------------------------------------------------
(* Spec: the public alert API over the ConfigStore and the SlackNotifier.   *)
(* A send is one invocation of sendToSlack: it runs up to its first await   *)
(* inside the alert call that started it, and it is resumed each time the   *)
(* remote call or the unlink it awaits settles.                             *)

\* alert calls that reach sendToSlack in one run
MaxSends == 1

OtherToken == <<"t", "o", "k">>

\* process.env at module load: SLACK_TOKEN_ID, CHANNEL_NAME, CHANNEL_ID
Environment(token, channelName, channelId) ==
    [token |-> token, channelName |-> channelName, channelId |-> channelId]
Environments ==
    {Environment(<<>>, <<>>, <<>>), Environment(XoxbToken, <<>>, ChannelId),
     Environment(XoxbToken, ChannelName, ChannelId),
     Environment(OtherToken, ChannelName, ChannelId)}

\* lines 34-46
tryAutoInitialize(store, env) ==
    IF env.token # <<>> /\ env.channelName # <<>> /\ env.channelId # <<>>
    THEN initialize(store, env.token, env.channelName, env.channelId)
    ELSE store

\* the options of init: none, or autoDeleteFiles
NoInitOptions == [given |-> FALSE, autoDeleteFiles |-> TRUE]
InitOptions(autoDeleteFiles) == [given |-> TRUE, autoDeleteFiles |-> autoDeleteFiles]

\* the arguments of init: valid ones with each choice of options, and each
\* argument invalid in turn
InitCalls ==
    {<<XoxbToken, ChannelName, ChannelId, options>> :
        options \in {NoInitOptions, InitOptions(TRUE), InitOptions(FALSE)}}
    \cup {<<<<>>, ChannelName, ChannelId, NoInitOptions>>,
          <<OtherToken, ChannelName, ChannelId, NoInitOptions>>,
          <<XoxbToken, <<>>, ChannelId, NoInitOptions>>,
          <<XoxbToken, ChannelName, <<>>, InitOptions(FALSE)>>}

\* lines 90-92
withAutoDeleteFiles(store, options) ==
    IF options.given THEN [store EXCEPT !.autoDeleteFiles = options.autoDeleteFiles]
    ELSE store

InitError(text) == Throw("Error", [text |-> text])

\* an init that does not refuse an initialised store
initAgain(store, slackToken, channelName, channelId, options) ==
    IF slackToken = <<>> \/ ~StartsWithAt(slackToken, 1, <<"x", "o", "x", "b", "-">>)
    THEN InitError("error-notifier: Invalid Slack bot token format. Token should start with xoxb-")
    ELSE IF channelName = <<>> THEN InitError("error-notifier: Channel name is required")
    ELSE IF channelId = <<>> THEN InitError("error-notifier: Channel ID is required")
    ELSE Return(withAutoDeleteFiles(
                    initialize(store, slackToken, channelName, channelId),
                    options))

\* lines 65-95
init(store, slackToken, channelName, channelId, options) ==
    IF store.isInitialized THEN InitError("error-notifier: Already initialized!")
    ELSE IF slackToken = <<>> \/ ~StartsWithAt(slackToken, 1, <<"x", "o", "x", "b", "-">>)
    THEN InitError("error-notifier: Invalid Slack bot token format. Token should start with xoxb-")
    ELSE IF channelName = <<>> THEN InitError("error-notifier: Channel name is required")
    ELSE IF channelId = <<>> THEN InitError("error-notifier: Channel ID is required")
    ELSE Return(withAutoDeleteFiles(
                    initialize(store, slackToken, channelName, channelId),
                    options))

\* the temp directory as a run finds it: an artifact older than 24 hours and
\* a younger one
StartupFiles ==
    [n \in {<<"o", "u", "t", ".", "c", "s", "v">>, <<"k", "e", "e", "p">>} |->
        [content |-> <<"o", "l", "d">>, old |-> n = <<"o", "u", "t", ".", "c", "s", "v">>]]

\* fs.readdirSync: the names of the directory, in any order
readdirSync(files) ==
    {listing \in [1..Cardinality(DOMAIN files) -> DOMAIN files] :
        \A n \in DOMAIN files : \E i \in DOMAIN listing : listing[i] = n}

\* fs.promises.unlink having succeeded
unlinked(files, path) == [n \in DOMAIN files \ {path} |-> files[n]]

\* lines 665-677: the loop runs on through the entries it does not delete
\* (statSync throws, or the file is young) and stops at the await of the
\* unlink of an old one; what is left is that entry and those after it
sweepFromIndexes(listing, olds) ==
    IF olds = {} THEN <<>>
    ELSE SubSeq(listing, CHOOSE i \in olds : \A j \in olds : i <= j, Len(listing))
sweepFrom(files, listing) ==
    sweepFromIndexes(listing, {i \in 1..Len(listing) :
                                  listing[i] \in DOMAIN files /\ files[listing[i]].old})

\* lines 657-678, up to the first await
cleanupOldFiles(store, files, listing) ==
    IF store.tempDir = <<>> THEN <<>> ELSE sweepFrom(files, listing)

\* an alert call: the function called (its severity), fileData, and the
\* five options handed on to createFileFromData; no call overrides the
\* default channel
AlertCall(severity, fileData, options) ==
    [severity |-> severity, fileData |-> fileData, options |-> options]
NoFileOptions == Options(NoFileName, Absent, Absent, Absent, NoHeaders)
SmallObject == Obj(<< <<<<"a">>, Num(1)>> >>)
BothModes == Options(FileName(<<"o", "u", "t">>), "csv", "json", Absent, NoHeaders)
FromOnly == Options(FileName(<<"o", "u", "t">>), Absent, "json", Absent, NoHeaders)

\* alert calls without file data, with file data and valid options (a
\* given name twice, a generated name), and with each kind of invalid
\* options and malformed input
AlertCalls ==
    {AlertCall("LOW", Undefined, NoFileOptions),
     AlertCall("HIGH", SmallObject, Direct("json")),
     AlertCall("MEDIUM", SmallObject, Convert("json", "csv")),
     AlertCall("LOW", Str(<<"L", "1">>), NoFileOptions),
     AlertCall("HIGH", SmallObject, BothModes),
     AlertCall("MEDIUM", SmallObject, FromOnly),
     AlertCall("LOW", SmallObject, Convert("json", "json")),
     AlertCall("HIGH", SmallObject, Direct("pdf")),
     AlertCall("MEDIUM", Str(<<"L", "1">>), Convert("json", "csv")),
     AlertCall("LOW", Num(1), Convert("csv", "json"))}

\* what sendToSlack catches: an Error thrown while the file is created, or
\* the rejection of a remote call with a platform error (data.error) or a
\* transport error (message only)
Caught(data, message) == [data |-> data, message |-> message]
RemoteFailures ==
    {Caught("channel_not_found", [text |-> "An API error occurred"]),
     Caught("", [text |-> "ECONNRESET"])}

\* the callbacks a caller registers with onError
Listeners == {"listener"}

\* line 861: slackError?.data?.error || slackError.message || 'Unknown error'
failureText(slackError) ==
    IF slackError.data # "" THEN [text |-> slackError.data]
    ELSE IF slackError.message # [text |-> ""] THEN slackError.message
    ELSE [text |-> "Unknown error"]

\* lines 859-862: the event emitted for the send, and the listeners
\* registered at that moment, which emitter.emit calls
InternalError(send, cause, heardBy) ==
    [send |-> send,
     error |-> [name |-> "Error",
                message |-> [text |-> "Slack API failed", cause |-> cause]],
     heardBy |-> heardBy]

\* a send and the position it has reached; filePath is empty when the
\* alert carried no fileData, written is the content createFileFromData
\* wrote for it, buffer is what readFileSync returned
Send(pc, severity, channelName, channelId, filePath, written, buffer) ==
    [pc |-> pc, severity |-> severity, channelName |-> channelName,
     channelId |-> channelId, filePath |-> filePath, written |-> written,
     buffer |-> buffer]

Init ==
    /\ request = NoRequest
    /\ outcome = NoOutcome
    /\ previous = NoPrevious
    /\ errorListeners = {}
    /\ sends = <<>>
    /\ tempFiles = StartupFiles
    /\ slack = NoSlackTraffic
    /\ lastCall = NoCall
    /\ internalErrors = {}
    /\ \E env \in Environments, listing \in readdirSync(StartupFiles) :
          /\ config = tryAutoInitialize(UninitializedConfig, env)
          /\ cleanup = cleanupOldFiles(tryAutoInitialize(UninitializedConfig, env),
                                       StartupFiles, listing)

\* lines 940-947: init returned r to the caller, or threw it
Initialized(r) ==
    /\ config' = IF r.threw THEN config ELSE r.value
    /\ lastCall' = IF r.threw THEN [op |-> "init", threw |-> TRUE, error |-> r.error]
                   ELSE [op |-> "init", threw |-> FALSE]
    /\ UNCHANGED <<request, outcome, previous, errorListeners, sends, tempFiles,
                   slack, cleanup, internalErrors>>

AlertInit ==
    \E args \in InitCalls :
        Initialized(init(config, args[1], args[2], args[3], args[4]))

\* what the caller of alert.high / medium / low observes: the call returns
AlertReturned(severity, send) ==
    lastCall' = [op |-> "alert", severity |-> severity, threw |-> FALSE, send |-> send]

\* lines 859-862, the catch of sendToSlack
EmitInternalError(send, slackError) ==
    internalErrors' =
        internalErrors \cup {InternalError(send, failureText(slackError), errorListeners)}

\* lines 752-763: createFileFromData has returned or thrown r; statSync
\* throws when nothing is at the path returned
SendWithFile(severity, req, r) ==
    /\ request' = req
    /\ outcome' = r
    /\ tempFiles' = IF ~r.threw /\ r.wrote
                    THEN writeFileSync(tempFiles, r.filePath, r.content)
                    ELSE tempFiles
    /\ IF r.threw
       THEN /\ EmitInternalError(req.step, Caught("", r.error.message))
            /\ sends' = Append(sends, Send("done", severity, config.defaultChannelName,
                                           config.defaultChannelId, <<>>, <<>>, <<>>))
       ELSE IF r.filePath \notin DOMAIN tempFiles'
       THEN /\ EmitInternalError(req.step, Caught("", [text |-> "ENOENT"]))
            /\ sends' = Append(sends, Send("done", severity, config.defaultChannelName,
                                           config.defaultChannelId, r.filePath, r.content,
                                           <<>>))
       ELSE /\ sends' = Append(sends, Send("posting", severity, config.defaultChannelName,
                                           config.defaultChannelId, r.filePath, r.content,
                                           <<>>))
            /\ UNCHANGED internalErrors
    /\ AlertReturned(severity, req.step)
    /\ UNCHANGED <<previous, config, errorListeners, slack, cleanup>>

\* lines 710-815 without fileData: the message is built and posted
SendWithoutFile(severity) ==
    /\ sends' = Append(sends, Send("posting", severity, config.defaultChannelName,
                                   config.defaultChannelId, <<>>, <<>>, <<>>))
    /\ AlertReturned(severity, Len(sends) + 1)
    /\ UNCHANGED <<request, outcome, previous, config, errorListeners, tempFiles,
                   slack, cleanup, internalErrors>>

\* an alert call that never takes the store for uninitialised
refusesAlertNever(store) == FALSE

\* lines 956-959 (also 969-972, 982-985): !config.getIsInitialized()
refusesAlert(store) == ~store.isInitialized

\* lines 952-989 and 886-929: alert.high / medium / low; the listener calls
\* sendToSlack and does not await it
AlertOf(calls, maxSends) ==
    /\ Len(sends) < maxSends
    /\ \E a \in calls, timestamp \in Timestamps :
          \E random \in RandomFor(a.options) :
              IF refusesAlert(config)
              THEN /\ AlertReturned(a.severity, 0)
                   /\ UNCHANGED <<request, outcome, previous, config, errorListeners,
                                  sends, tempFiles, slack, cleanup, internalErrors>>
              ELSE IF a.fileData.t = "undef" THEN SendWithoutFile(a.severity)
              ELSE SendWithFile(a.severity,
                                [fn |-> "createFileFromData", step |-> Len(sends) + 1,
                                 data |-> a.fileData, options |-> a.options,
                                 source |-> "alert"],
                                createFileFromData(a.fileData, a.options, timestamp,
                                                   random))

Alert == AlertOf(AlertCalls, MaxSends)

\* the send at position i moves on
Moved(i, send) == sends' = [sends EXCEPT ![i] = send]
At(send, pc) == [send EXCEPT !.pc = pc]

\* lines 815-842: chat.postMessage resolved; with a file, readFileSync and
\* the call of files.uploadV2 follow, and a missing file ends the send in
\* the catch of line 851
PostMessageResolves ==
    \E i \in DOMAIN sends :
        /\ sends[i].pc = "posting"
        /\ slack' = [slack EXCEPT !.messages =
                        @ \cup {[send |-> i, severity |-> sends[i].severity,
                                 channel |-> sends[i].channelName]}]
        /\ Moved(i, IF sends[i].filePath = <<>> \/ sends[i].filePath \notin DOMAIN tempFiles
                    THEN At(sends[i], "done")
                    ELSE [sends[i] EXCEPT !.pc = "uploading",
                                          !.buffer = tempFiles[sends[i].filePath].content])
        /\ UNCHANGED <<request, outcome, previous, config, errorListeners, tempFiles,
                       lastCall, cleanup, internalErrors>>

\* lines 815 and 859-862: chat.postMessage rejected
PostMessageRejects ==
    \E i \in DOMAIN sends, slackError \in RemoteFailures :
        /\ sends[i].pc = "posting"
        /\ EmitInternalError(i, slackError)
        /\ Moved(i, At(sends[i], "done"))
        /\ UNCHANGED <<request, outcome, previous, config, errorListeners, tempFiles,
                       slack, lastCall, cleanup>>

\* a store that always has files deleted
shouldAutoDeleteFilesAlways(store) == TRUE

\* lines 116-118
shouldAutoDeleteFiles(store) == store.autoDeleteFiles

\* a send that goes on to delete whatever the upload returned
afterUploadDeletes(ok, store) ==
    IF shouldAutoDeleteFiles(store) THEN "deleting" ELSE "done"

\* lines 847-849 and 641-647: where the send stands once uploadV2 resolved
afterUpload(ok, store) ==
    IF ok /\ shouldAutoDeleteFiles(store) THEN "deleting" ELSE "done"

\* lines 837-849 and 640-646: files.uploadV2 resolved; deleteFile starts the
\* unlink when the result is ok and files are deleted automatically
UploadResolves ==
    \E i \in DOMAIN sends, ok \in BOOLEAN :
        /\ sends[i].pc = "uploading"
        /\ slack' = [slack EXCEPT !.uploads =
                        @ \cup {[send |-> i, ok |-> ok, filename |-> sends[i].filePath,
                                 file |-> sends[i].buffer,
                                 channel_id |-> sends[i].channelId]}]
        /\ Moved(i, At(sends[i], afterUpload(ok, config)))
        /\ UNCHANGED <<request, outcome, previous, config, errorListeners, tempFiles,
                       lastCall, cleanup, internalErrors>>

\* lines 837 and 851-856: files.uploadV2 rejected; the failure is logged
UploadRejects ==
    \E i \in DOMAIN sends :
        /\ sends[i].pc = "uploading"
        /\ Moved(i, At(sends[i], "done"))
        /\ UNCHANGED <<request, outcome, previous, config, errorListeners, tempFiles,
                       slack, lastCall, cleanup, internalErrors>>

\* a deleteFile that reports the rejection of its unlink as an internal error
unlinkRejectedReported(errors, send, heardBy) ==
    errors \cup {InternalError(send, [text |-> "unlink failed"], heardBy)}

\* lines 648-650: the catch of deleteFile logs the rejection; the events
\* emitted stay as they were
unlinkRejected(errors, send, heardBy) == errors

\* lines 647-651: the unlink of deleteFile settled; a rejection is logged
UnlinkSettles ==
    \E i \in DOMAIN sends, succeeded \in BOOLEAN :
        /\ sends[i].pc = "deleting"
        /\ succeeded => sends[i].filePath \in DOMAIN tempFiles
        /\ tempFiles' = IF succeeded THEN unlinked(tempFiles, sends[i].filePath)
                        ELSE tempFiles
        /\ internalErrors' = IF succeeded THEN internalErrors
                             ELSE unlinkRejected(internalErrors, i, errorListeners)
        /\ Moved(i, At(sends[i], "done"))
        /\ UNCHANGED <<request, outcome, previous, config, errorListeners, slack,
                       lastCall, cleanup>>

\* lines 665-677: the unlink the sweep awaits settled, and the loop goes on
\* to the next old file
CleanupUnlinkSettles ==
    \E succeeded \in BOOLEAN :
        /\ cleanup # <<>>
        /\ succeeded => Head(cleanup) \in DOMAIN tempFiles
        /\ tempFiles' = IF succeeded THEN unlinked(tempFiles, Head(cleanup))
                        ELSE tempFiles
        /\ cleanup' = sweepFrom(tempFiles', Tail(cleanup))
        /\ UNCHANGED <<request, outcome, previous, config, errorListeners, sends,
                       slack, lastCall, internalErrors>>

\* lines 1023-1025
OnError ==
    \E listener \in Listeners \ errorListeners :
        /\ errorListeners' = errorListeners \cup {listener}
        /\ UNCHANGED <<request, outcome, previous, config, sends, tempFiles, slack,
                       lastCall, cleanup, internalErrors>>

\* lines 1030-1032
OffError ==
    \E listener \in Listeners :
        /\ errorListeners' = errorListeners \ {listener}
        /\ UNCHANGED <<request, outcome, previous, config, sends, tempFiles, slack,
                       lastCall, cleanup, internalErrors>>

Next ==
    \/ AlertInit
    \/ Alert
    \/ PostMessageResolves
    \/ PostMessageRejects
    \/ UploadResolves
    \/ UploadRejects
    \/ UnlinkSettles
    \/ CleanupUnlinkSettles
    \/ OnError
    \/ OffError

Spec == Init /\ [][Next]_vars

---------------------------------------------------------------------------
(* SpecPair: the alert API with a second alert call made while the first   *)
(* send is still in flight.                                                 *)

\* alert calls that reach sendToSlack in one run of SpecPair
MaxPairSends == 2

OtherObject == Obj(<< <<<<"b">>, Num(2)>> >>)

\* two calls that pass the same fileName with different fileData, and one
\* that leaves the name to be generated
PairCalls ==
    {AlertCall("HIGH", SmallObject, Direct("json")),
     AlertCall("MEDIUM", OtherObject, Direct("json")),
     AlertCall("LOW", Str(<<"L", "1">>), NoFileOptions)}

AlertPair == AlertOf(PairCalls, MaxPairSends)

PairNext ==
    \/ AlertInit
    \/ AlertPair
    \/ PostMessageResolves
    \/ PostMessageRejects
    \/ UploadResolves
    \/ UploadRejects
    \/ UnlinkSettles
    \/ CleanupUnlinkSettles
    \/ OnError
    \/ OffError

SpecPair == Init /\ [][PairNext]_vars

---------------------------------------------------------------------------
(* Option validation (SpecEngine) *)

\* the call of createFileFromData that the state records has been made
Called == request.fn = "createFileFromData"

\* the call threw an Error with this message text and wrote no file
ThrewError(text) ==
    /\ outcome.threw
    /\ outcome.error.name = "Error"
    /\ outcome.error.message.text = text
    /\ ~outcome.wrote

BothModesText == "Cannot use both fileType and from/to options together"
TogetherText == "Both from and to options must be provided together"
SameFormatText == "Cannot convert (same format)"

\* C1: whenever fileType is set together with from, to or both, whatever the
\* data, the file name and the headers are, createFileFromData throws the
\* 'cannot use both fileType and from/to' error and writes nothing.
C1_BothModesRejected ==
    (/\ Called
     /\ TagGiven(request.options.fileType)
     /\ TagGiven(request.options.from) \/ TagGiven(request.options.to))
    => ThrewError(BothModesText)

\* fileType with a source and no target, on an object
C1_Witness ==
    /\ Called
    /\ request.options.fileType = "csv"
    /\ request.options.from = "json"
    /\ request.options.to = Absent
    /\ request.data.t = "obj"
    /\ ThrewError(BothModesText)

\* C2: whenever no fileType is set and exactly one of from / to is set,
\* createFileFromData throws the 'from and to must be provided together'
\* error and writes nothing.
C2_FromToTogether ==
    (/\ Called
     /\ ~TagGiven(request.options.fileType)
     /\ TagGiven(request.options.from) # TagGiven(request.options.to))
    => ThrewError(TogetherText)

\* a target without a source
C2_Witness ==
    /\ Called
    /\ request.options.fileType = Absent
    /\ request.options.from = Absent
    /\ request.options.to = "json"
    /\ ThrewError(TogetherText)

\* C3: whenever no fileType is set and from and to are the same valid format,
\* createFileFromData throws the 'cannot convert, same format' error and
\* writes nothing; and every conversion that writes a file has a source
\* format different from its target format.
C3_SameFormatRejected ==
    /\ (/\ Called
        /\ ~TagGiven(request.options.fileType)
        /\ IsValidFormat(request.options.from)
        /\ request.options.to = request.options.from)
       => (ThrewError(SameFormatText)
           /\ outcome.error.message.from = request.options.from
           /\ outcome.error.message.to = request.options.to)
    /\ (Called /\ outcome.wrote /\ shouldConvert(request.options))
       => request.options.from # request.options.to

\* json to json, on an object
C3_Witness ==
    /\ Called
    /\ request.options.fileType = Absent
    /\ request.options.from = "json"
    /\ request.options.to = "json"
    /\ request.data.t = "obj"
    /\ ThrewError(SameFormatText)

\* the tags an option record sets that are no valid format
InvalidTags(options) ==
    {tag \in {options.fileType, options.from, options.to} :
        TagGiven(tag) /\ ~IsValidFormat(tag)}

\* C4: whenever the options pass the two mode rules and set a tag that is not
\* one of txt, json, csv, createFileFromData throws an error that carries an
\* invalid tag the options set and the list of valid formats, writes nothing,
\* and the error's text differs from the texts of both mode errors.
C4_InvalidTagRejected ==
    (/\ Called
     /\ ~(/\ TagGiven(request.options.fileType)
          /\ TagGiven(request.options.from) \/ TagGiven(request.options.to))
     /\ TagGiven(request.options.from) = TagGiven(request.options.to)
     /\ InvalidTags(request.options) # {})
    => /\ outcome.threw
       /\ ~outcome.wrote
       /\ outcome.error.message.text
             \in {"Invalid fileType", "Invalid from format", "Invalid to format"}
       /\ outcome.error.message.text \notin {BothModesText, TogetherText}
       /\ outcome.error.message.tag \in InvalidTags(request.options)
       /\ outcome.error.message.mustBeOneOf = <<"txt", "json", "csv">>

\* a valid source with the target pdf
C4_Witness ==
    /\ Called
    /\ request.options.fileType = Absent
    /\ request.options.from = "csv"
    /\ request.options.to = "pdf"
    /\ outcome.threw
    /\ outcome.error.message.text = "Invalid to format"
    /\ outcome.error.message.tag = "pdf"

---------------------------------------------------------------------------
(* Conversions (SpecEngine) *)

\* the value JSON.parse gives for the file the call wrote
WrittenJson == JSONparse(outcome.content).v

\* the lines a text has after trimming
LinesOf(text) == Split(Trim(text), "\n")

\* C6: a text of more than one line converted from txt to json gives a file
\* whose top-level JSON value is an array with one element per line, in line
\* order, each {lineNumber, content: the trimmed line, characterCount: the
\* length of the untrimmed line}.
C6_TextLinesArray ==
    (/\ Called
     /\ ~TagGiven(request.options.fileType)
     /\ request.options.from = "txt"
     /\ request.options.to = "json"
     /\ IsString(request.data)
     /\ Len(LinesOf(request.data.s)) > 1
     /\ outcome.wrote)
    => WrittenJson =
          Arr([i \in 1..Len(LinesOf(request.data.s)) |->
                  Obj(<< <<K_lineNumber, Num(i)>>,
                         <<K_content, Str(Trim(LinesOf(request.data.s)[i]))>>,
                         <<K_characterCount,
                           Num(Len(LinesOf(request.data.s)[i]))>> >>)])

\* the request writes CSV from the value data, no header list passed
WritesCsvOf(req) ==
    /\ req.fn = "createFileFromData"
    /\ ~req.options.csvHeaders.given
    /\ \/ /\ ~TagGiven(req.options.fileType)
          /\ req.options.from = "json"
          /\ req.options.to = "csv"
       \/ /\ req.options.fileType = "csv"
          /\ ~TagGiven(req.options.from)
          /\ ~TagGiven(req.options.to)

\* the values at the leaves of a plain object, in the order of flattenObject
LeafValues(obj) ==
    [h \in 1..Len(flattenObject(obj, <<>>)) |->
        getNestedValue(obj, flattenObject(obj, <<>>)[h])]

\* C7: a plain object converted to CSV without a header list gives the
\* dot-notation paths of its leaves as the header line, in first-seen order,
\* and one data row with the leaf values in the same order.
C7_ObjectFlattened ==
    (/\ WritesCsvOf(request)
     /\ request.data.t = "obj"
     /\ outcome.wrote)
    => outcome.content =
          Join(flattenObject(request.data, <<>>), <<",">>) \o <<"\n">>
          \o Join([h \in 1..Len(LeafValues(request.data)) |->
                      csvFieldOf(LeafValues(request.data)[h])], <<",">>)
          \o <<"\n">>

\* the rows of a JSON-convertible input: the elements of an array of objects,
\* or the object itself
RowsOf(v) == IF IsArray(v) THEN v.items ELSE <<v>>

\* v is an object or a non-empty array of objects
IsTable(v) ==
    \/ v.t = "obj"
    \/ /\ IsArray(v)
       /\ v.items # <<>>
       /\ \A i \in 1..Len(v.items) : v.items[i].t = "obj"

\* got is what the round trip may return for the field value orig: the text
\* of a scalar, the JSON encoding of an object or an array
FieldRoundTrips(orig, got) ==
    IF orig.t \in {"obj", "arr"}
    THEN /\ IsString(got)
         /\ JSONparse(got.s).ok
         /\ JSONparse(got.s).v = orig
    ELSE got = Str(StringOf(orig))

\* C10: an object or array of objects v converted to CSV, and that CSV read
\* back and converted to JSON, returns in every row every scalar field with
\* the text it had in v, and every object or array field as a JSON-encoded
\* string that parses to the original structure.
C10_JsonCsvJson ==
    (/\ Called
     /\ request.source = "file"
     /\ request.options.from = "csv"
     /\ request.options.to = "json"
     /\ outcome.wrote
     /\ WritesCsvOf(previous.request)
     /\ IsTable(previous.request.data))
    => \A i \in 1..Len(RowsOf(previous.request.data)) :
          \A k \in 1..Len(ObjectKeys(RowsOf(previous.request.data)[i])) :
             FieldRoundTrips(
                GetProp(RowsOf(previous.request.data)[i],
                        ObjectKeys(RowsOf(previous.request.data)[i])[k]),
                GetProp(GetProp(WrittenJson, NumToStr(i - 1)),
                        ObjectKeys(RowsOf(previous.request.data)[i])[k]))

---------------------------------------------------------------------------
(* CSV round trips (SpecCsv) *)

\* the call recorded parsed what the call before it serialised from rows of
\* string fields, no header list passed to either
ParsedTheSerialized ==
    /\ request.fn = "parseCsvData"
    /\ request.source = "serialized"
    /\ previous.request.fn = "createCsvFile"
    /\ previous.request.source = "caller"
    /\ ~previous.request.headers.given

NeedsQuoting(s) == Includes(s, ",") \/ Includes(s, "\"") \/ Includes(s, "\n")

\* C8: a string field value that holds a comma, a double quote or a newline,
\* in a table serialised by createCsvFile and parsed back by parseCsvData,
\* is recovered exactly in the same column of the same row.
C8_QuotedFieldRoundTrip ==
    ParsedTheSerialized
    => \A i \in 1..Len(previous.request.data.items) :
          \A k \in 1..Len(ObjectKeys(previous.request.data.items[i])) :
             NeedsQuoting(GetProp(previous.request.data.items[i],
                             ObjectKeys(previous.request.data.items[i])[k]).s)
             => /\ ~outcome.threw
                /\ GetProp(GetProp(outcome.value, NumToStr(i - 1)),
                           ObjectKeys(previous.request.data.items[i])[k])
                   = GetProp(previous.request.data.items[i],
                             ObjectKeys(previous.request.data.items[i])[k])

\* the call recorded serialised the table the call before it parsed from a
\* text, under the header list made of the fields of the text's first line
SerializedTheParsed ==
    /\ request.fn = "createCsvFile"
    /\ request.source = "parsed"
    /\ request.headers.given
    /\ previous.request.fn = "parseCsvData"
    /\ previous.request.source = "caller"
    /\ ~previous.request.headers.given
    /\ IsString(previous.request.csvString)

\* the fields of a line that holds no quote
PlainFields(line) == Split(line, ",")

\* a header line and zero or more data lines, no quote anywhere: no field
\* holds a character that needs escaping
IsPlainCsv(s) == s # <<>> /\ ~Includes(s, "\"")

\* C9 as stated: for every CSV text s of a header line and zero or more data
\* lines whose fields need no escaping, parsing s and serialising the table
\* under the same header order gives exactly s.
C9_ParseSerializeIdentity ==
    (SerializedTheParsed /\ IsPlainCsv(previous.request.csvString.s))
    => (~outcome.threw /\ outcome.value = previous.request.csvString.s)

\* s without its last character
Body(s) == SubSeq(s, 1, Len(s) - 1)

\* s is a header line and at least one data line, each ended by a newline,
\* with no other white space at either end of the text, no quote, header
\* names that are pairwise different and hold no dot, and as many fields in
\* every data line as in the header line
IsRegularCsv(s) ==
    /\ IsPlainCsv(s)
    /\ s[Len(s)] = "\n"
    /\ Trim(Body(s)) = Body(s)
    /\ Len(Split(Body(s), "\n")) >= 2
    /\ \A h \in 1..Len(PlainFields(Split(Body(s), "\n")[1])) :
          /\ ~Includes(PlainFields(Split(Body(s), "\n")[1])[h], ".")
          /\ \A g \in 1..(h - 1) :
                PlainFields(Split(Body(s), "\n")[1])[g]
                # PlainFields(Split(Body(s), "\n")[1])[h]
    /\ \A l \in 1..Len(Split(Body(s), "\n")) :
          Len(PlainFields(Split(Body(s), "\n")[l]))
          = Len(PlainFields(Split(Body(s), "\n")[1]))

\* C9 amended: for every CSV text s made of a header line and at least one
\* data line, each ended by one newline, with no other white space at the
\* ends of the text, no quote, pairwise different header names without a
\* dot, and as many fields in every data line as in the header: parsing s
\* and serialising the table under the header list of s gives exactly s.
C9_RegularParseSerializeIdentity ==
    (SerializedTheParsed /\ IsRegularCsv(previous.request.csvString.s))
    => (~outcome.threw /\ outcome.value = previous.request.csvString.s)

\* a header and one row of two columns came back unchanged
C9_Witness ==
    /\ SerializedTheParsed
    /\ previous.request.csvString.s = <<"a", ",", "b", "\n", "1", ",", "2", "\n">>
    /\ request.headers.list = << <<"a">>, <<"b">> >>
    /\ outcome.value = <<"a", ",", "b", "\n", "1", ",", "2", "\n">>

---------------------------------------------------------------------------
(* Error propagation (Spec) *)

\* the last alert call reached createFileFromData, which threw
AlertFileCreationThrew ==
    /\ lastCall.op = "alert"
    /\ lastCall.send > 0
    /\ request.fn = "createFileFromData"
    /\ request.source = "alert"
    /\ request.step = lastCall.send
    /\ outcome.threw

\* C5: when alert.high / medium / low is called on an initialised library
\* with fileData and invalid options or malformed input, the validation or
\* conversion error is thrown to the caller of that alert call, and no
\* internal-error event is emitted for that send.
C5_CreationErrorThrownToCaller ==
    AlertFileCreationThrew =>
        /\ lastCall.threw
        /\ \A e \in internalErrors : e.send # lastCall.send

---------------------------------------------------------------------------
(* Empty CSV input (SpecCsv) *)

\* the call recorded is a caller's parse of a text that is empty once its
\* outer white space is trimmed
ParsedEmptyText ==
    /\ request.fn = "parseCsvData"
    /\ request.source = "caller"
    /\ IsString(request.csvString)
    /\ Trim(request.csvString.s) = <<>>

\* C11: parsing an empty CSV input (the empty string, or a string empty
\* after trimming) yields a table of zero rows, with and without a header
\* list supplied by the caller.
C11_EmptyCsvEmptyTable ==
    ParsedEmptyText => (~outcome.threw /\ outcome.value = Arr(<<>>))

---------------------------------------------------------------------------
(* The configuration store (Spec) *)

\* a step in which a caller's init call returned or threw
InitCallStep == lastCall' # lastCall /\ lastCall'.op = "init"

\* C12: once the configuration store is initialised, by init or from the
\* environment, every later init call throws and no step changes the token,
\* the default channel name and id, the auto-delete flag, the temp directory
\* or the initialised flag.
C12_InitializedAtMostOnce ==
    [][config.isInitialized =>
          /\ config' = config
          /\ InitCallStep => lastCall'.threw]_vars

\* an init call on an initialised store threw
C12_Witness ==
    /\ config.isInitialized
    /\ lastCall.op = "init"
    /\ lastCall.threw
    /\ lastCall.error.message.text = "error-notifier: Already initialized!"


\* C13: while the configuration store is not initialised, whatever alert
\* calls and failed init calls were made, no send was started, no message
\* was posted, nothing was uploaded, no file was created, and every alert
\* call only returned.
C13_NoSendBeforeInit ==
    ~config.isInitialized =>
        /\ sends = <<>>
        /\ slack = NoSlackTraffic
        /\ tempFiles = StartupFiles
        /\ request = NoRequest
        /\ internalErrors = {}
        /\ lastCall.op = "alert" => (~lastCall.threw /\ lastCall.send = 0)

\* an alert call was made on the uninitialised library
C13_Witness ==
    /\ ~config.isInitialized
    /\ lastCall.op = "alert"
    /\ lastCall.send = 0

---------------------------------------------------------------------------
(* The steps of a send (Spec) *)

\* what the workspace received from the send at position i
Posted(i) == \E msg \in slack.messages : msg.send = i
Uploaded(i) == \E up \in slack.uploads : up.send = i
UploadedOk(i) == \E up \in slack.uploads : up.send = i /\ up.ok
\* the send at position i was started by the latest alert call with fileData
LatestFileSend(i) ==
    request.fn = "createFileFromData" /\ request.source = "alert" /\ request.step = i

\* C14: within a send that carries file data the steps run in the order
\* write, post, upload, delete, each after the one before it has completed:
\* while the post is awaited the file has been written and nothing has been
\* uploaded; the upload is awaited or done only after the message was
\* posted, never after a failed post; the delete is awaited only after the
\* upload succeeded.
C14_StepsInOrder ==
    \A i \in DOMAIN sends :
        /\ (sends[i].pc = "posting" /\ LatestFileSend(i)) =>
              /\ outcome.wrote
              /\ outcome.filePath = sends[i].filePath
              /\ ~Posted(i)
              /\ ~Uploaded(i)
        /\ (sends[i].pc = "posting") => ~Uploaded(i)
        /\ (sends[i].pc \in {"uploading", "deleting"} \/ Uploaded(i)) =>
              /\ Posted(i)
              /\ sends[i].filePath # <<>>
        /\ sends[i].pc = "uploading" => ~Uploaded(i)
        /\ sends[i].pc = "deleting" => UploadedOk(i)

\* a send with file data went through all four steps
C14_Witness ==
    \E i \in DOMAIN sends :
        /\ sends[i].pc = "done"
        /\ sends[i].filePath # <<>>
        /\ Posted(i)
        /\ UploadedOk(i)
        /\ sends[i].filePath \notin DOMAIN tempFiles


\* a step in which the send at position i, delivered with its file,
\* completes
CompletesDelivered(i) ==
    /\ sends[i].pc # "done"
    /\ sends'[i].pc = "done"
    /\ sends[i].filePath # <<>>
    /\ Posted(i)'
    /\ UploadedOk(i)'

\* C15 as stated: when a send with file data completes after its message
\* was posted and its file uploaded, the artifact is gone if auto-delete is
\* enabled and is in place if it is disabled.
C15_DeletedOnDelivery ==
    [][\A i \in DOMAIN sends :
          CompletesDelivered(i) =>
              IF config.autoDeleteFiles
              THEN sends[i].filePath \notin DOMAIN tempFiles'
              ELSE sends[i].filePath \in DOMAIN tempFiles']_vars

\* C15 amended: when a send with file data completes after its message was
\* posted and its file uploaded, then with auto-delete enabled it completes
\* out of the awaited unlink of its artifact, and the artifact is gone
\* unless that unlink failed and left the directory as it was; with
\* auto-delete disabled it completes when the upload resolves, no unlink is
\* made, and the artifact is in place.
C15_DeleteAwaitedOnDelivery ==
    [][\A i \in DOMAIN sends :
          CompletesDelivered(i) =>
              IF config.autoDeleteFiles
              THEN /\ sends[i].pc = "deleting"
                   /\ \/ sends[i].filePath \notin DOMAIN tempFiles'
                      \/ tempFiles' = tempFiles
              ELSE /\ sends[i].pc = "uploading"
                   /\ tempFiles' = tempFiles
                   /\ sends[i].filePath \in DOMAIN tempFiles']_vars

\* a delivered send completed with its artifact deleted
C15_Witness ==
    \E i \in DOMAIN sends :
        /\ sends[i].pc = "done"
        /\ sends[i].filePath # <<>>
        /\ UploadedOk(i)
        /\ config.autoDeleteFiles
        /\ sends[i].filePath \notin DOMAIN tempFiles
        /\ cleanup = <<>>
        /\ lastCall.op = "alert"

---------------------------------------------------------------------------
(* Delivery and cleanup failures (Spec) *)

\* a step in which the remote call the send at position i awaits fails: the
\* post ends the send with no message received, or the upload ends it with
\* no upload result
RemoteCallFails(i) ==
    /\ sends'[i].pc = "done"
    /\ \/ sends[i].pc = "posting" /\ ~Posted(i)'
       \/ sends[i].pc = "uploading" /\ ~Uploaded(i)'

\* C16: every failure of the remote message post or of the remote file
\* upload is caught in the dispatcher: the alert call is not made to throw,
\* and an internal-error event for the send is emitted to every listener
\* registered with onError.
C16_DeliveryFailureReported ==
    [][\A i \in DOMAIN sends :
          RemoteCallFails(i) =>
              /\ lastCall' = lastCall
              /\ \E e \in internalErrors' \ internalErrors :
                    e.send = i /\ e.heardBy = errorListeners]_vars


\* a step in which the unlink that the send at position i awaits in
\* deleteFile fails: the send completes and nothing was removed
DeleteFails(i) ==
    /\ sends[i].pc = "deleting"
    /\ sends'[i].pc = "done"
    /\ tempFiles' = tempFiles

\* C17: a failure to delete the artifact after a successful upload is
\* swallowed: the send completes as delivered, no internal-error event is
\* emitted for it, and the alert call, which had returned, is not made to
\* fail.
C17_DeleteFailureSwallowed ==
    [][\A i \in DOMAIN sends :
          DeleteFails(i) =>
              /\ internalErrors' = internalErrors
              /\ \A e \in internalErrors' : e.send # i
              /\ lastCall' = lastCall
              /\ lastCall.op = "alert" => ~lastCall.threw
              /\ Posted(i)'
              /\ UploadedOk(i)']_vars

\* a delivered send completed with its artifact still in place, although
\* files are deleted automatically: its unlink failed
C17_Witness ==
    \E i \in DOMAIN sends :
        /\ sends[i].pc = "done"
        /\ UploadedOk(i)
        /\ config.autoDeleteFiles
        /\ sends[i].filePath \in DOMAIN tempFiles
        /\ internalErrors = {}


---------------------------------------------------------------------------
(* The startup sweep (Spec) *)

\* the sweep still has the file named n to visit
InSweep(n) == \E k \in DOMAIN cleanup : cleanup[k] = n

\* a step of the sweep: the unlink it awaited has settled
SweepStep == cleanup' # cleanup

\* C18: the sweep reaps every file of the temp directory older than 24 hours
\* and no younger one, also when the configuration is initialized by an
\* explicit init call: once init has succeeded, every old file is one the
\* sweep is about to delete; a step of the sweep removes old files only and
\* keeps the remaining old files on its list.
C18_SweepReapsOldFiles ==
    [][/\ (InitCallStep /\ ~lastCall'.threw) =>
              \A n \in DOMAIN tempFiles' : tempFiles'[n].old => InSweep(n)'
       /\ SweepStep =>
              /\ \A n \in DOMAIN tempFiles \ DOMAIN tempFiles' : tempFiles[n].old
              /\ \A n \in DOMAIN tempFiles' \ {Head(cleanup)} :
                    tempFiles'[n].old => InSweep(n)']_vars


---------------------------------------------------------------------------
(* File names and output formats (SpecEngine) *)

\* the call returned a path: the request was valid and nothing threw
Returned == Called /\ ~outcome.threw

\* the caller gave a name (the empty string counts as none)
NameGiven == request.options.fileName.given /\ request.options.fileName.name # <<>>

HexChars == {"0", "1", "2", "3", "4", "5", "6", "7", "8", "9",
             "a", "b", "c", "d", "e", "f"}

\* name is alert-<digits>-<8 hex chars>.<ext>, with k digits
IsGeneratedNameOf(name, ext, k) ==
    /\ Len(name) = 6 + k + 1 + 8 + 1 + Len(ext)
    /\ SubSeq(name, 1, 6) = <<"a", "l", "e", "r", "t", "-">>
    /\ \A j \in 7..(6 + k) : IsDigit(name[j])
    /\ name[7 + k] = "-"
    /\ \A j \in (8 + k)..(15 + k) : name[j] \in HexChars
    /\ name[16 + k] = "."
    /\ SubSeq(name, 17 + k, Len(name)) = ext
IsGeneratedName(name, ext) == \E k \in 1..Len(name) : IsGeneratedNameOf(name, ext, k)

\* C19: for a valid request the created file's base name is the caller's
\* name verbatim when it contains a '.', the name followed by '.' and the
\* resolved output format when it contains none, and
\* alert-<epoch millis>-<8 hex chars>.<resolved format> when no name is given.
C19_FileNameResolved ==
    Returned =>
        IF ~NameGiven
        THEN IsGeneratedName(outcome.filePath, FormatChars(outcome.outputFormat))
        ELSE IF Includes(request.options.fileName.name, ".")
        THEN outcome.filePath = request.options.fileName.name
        ELSE outcome.filePath =
                 request.options.fileName.name \o <<".">>
                 \o FormatChars(outcome.outputFormat)

\* "report.txt" was given with the resolved format csv, and a file was
\* written under that name
C19_Witness ==
    /\ Returned
    /\ outcome.wrote
    /\ request.options.fileName = FileName(<<"r", "e", "p", "o", "r", "t", ".", "t", "x", "t">>)
    /\ outcome.outputFormat = "csv"
    /\ outcome.filePath = <<"r", "e", "p", "o", "r", "t", ".", "t", "x", "t">>


\* the format the request asks for: the target of a conversion, else the
\* explicit file type, else txt
RequestedFormat ==
    IF TagGiven(request.options.from) /\ TagGiven(request.options.to)
    THEN request.options.to
    ELSE IF TagGiven(request.options.fileType) THEN request.options.fileType
    ELSE "txt"

\* what the serialiser is handed: the data parsed from its source format in
\* a conversion, the data itself otherwise
SerializerInput ==
    IF ~(TagGiven(request.options.from) /\ TagGiven(request.options.to))
    THEN Return(request.data)
    ELSE CASE request.options.from = "json" -> parseJsonData(request.data)
           [] request.options.from = "csv" ->
                 parseCsvData(request.data, request.options.csvHeaders)
           [] OTHER -> Return(parseTextData(request.data))

\* the serialiser of a format, applied to the value it is handed
SerializedAs(format, value) ==
    CASE format = "txt" -> Return(createTextFile(value))
      [] format = "json" -> Return(createJsonFile(value))
      [] OTHER -> createCsvFile(value, request.options.csvHeaders)

\* the file holds what the serialiser of the format makes of the input
WrittenBySerializerOf(format, input) ==
    /\ ~input.threw
    /\ ~SerializedAs(format, input.value).threw
    /\ outcome.content = SerializedAs(format, input.value).value

\* C20: for a request that passes validation, the resolved output format
\* is the target when from and to are both present, the explicit fileType
\* when only that is present, and txt when none is present; the file is
\* written by the serialiser of that format.
C20_OutputFormatResolved ==
    Returned =>
        /\ outcome.outputFormat = RequestedFormat
        /\ outcome.wrote
        /\ WrittenBySerializerOf(RequestedFormat, SerializerInput)

\* a conversion of JSON to CSV returned with a file in the csv format
C20_Witness ==
    /\ Returned
    /\ outcome.wrote
    /\ request.options.from = "json"
    /\ request.options.to = "csv"
    /\ ~TagGiven(request.options.fileType)
    /\ outcome.outputFormat = "csv"
    /\ WrittenBySerializerOf("csv", parseJsonData(request.data))

---------------------------------------------------------------------------
(* The stored credentials (Spec) *)

\* C23: whenever the configuration store is initialized, the stored token
\* starts with 'xoxb-' and the default channel name and channel id are not
\* empty, whether init or the auto-initialization from the environment
\* initialized it.
C23_StoredCredentialsValid ==
    config.isInitialized =>
        /\ StartsWithAt(config.slackToken, 1, <<"x", "o", "x", "b", "-">>)
        /\ config.defaultChannelName # <<>>
        /\ config.defaultChannelId # <<>>


---------------------------------------------------------------------------
(* Failed file creation (SpecEngine) *)

\* a step in which a call of createFileFromData threw
CreationThrows == request' # request /\ outcome'.threw

\* C22: a call of createFileFromData that throws, because of a validation
\* rule or a format error of the source, leaves the temp directory
\* unchanged: no file has been created or overwritten.
C22_FailedCreationWritesNothing ==
    [][CreationThrows => tempFiles' = tempFiles]_vars

\* a conversion to out.csv threw on invalid JSON text, and the out.csv that
\* was in the directory is as it was
C22_Witness ==
    /\ Called
    /\ outcome.threw
    /\ outcome.error.message.text = "Invalid JSON string provided for conversion"
    /\ request.options = Convert("json", "csv")
    /\ <<"o", "u", "t", ".", "c", "s", "v">> \in DOMAIN tempFiles
    /\ tempFiles[<<"o", "u", "t", ".", "c", "s", "v">>].content = <<"o", "l", "d">>


---------------------------------------------------------------------------
(* Sends in flight together (SpecPair) *)

\* the send at position i reads its file for the upload in this step
ReadsFile(i) == sends[i].pc = "posting" /\ sends'[i].pc = "uploading"

\* the send at position i has posted its message in this step and ends
\* there, although it has a file to upload: readFileSync found no file
FindsFileGone(i) ==
    /\ sends[i].pc = "posting"
    /\ sends'[i].pc = "done"
    /\ slack' # slack
    /\ sends[i].filePath # <<>>

\* the send at position i removes a file in this step
DeletesFile(i) ==
    /\ sends[i].pc = "deleting"
    /\ sends'[i].pc = "done"
    /\ tempFiles' # tempFiles

\* C21: with two alerts with file data in flight together, also when both
\* pass the same fileName, each send reads for its upload exactly the
\* content built from its own fileData, never finds its file deleted by
\* the other, and deletes only its own artifact.
C21_SendsKeepTheirOwnFiles ==
    [][\A i \in DOMAIN sends :
          /\ ReadsFile(i) => sends'[i].buffer = sends[i].written
          /\ ~FindsFileGone(i)
          /\ DeletesFile(i) =>
                tempFiles[sends[i].filePath].content = sends[i].written]_vars

===========================================================================
